---------------------------- MODULE Spec2Model ----------------------------
(***************************************************************************)
(* A model of interserve's section extractor (internal/extract), of its    *)
(* classification engine (internal/classify) and of its file query with    *)
(* the result cache (internal/query).                                      *)
(*                                                                         *)
(* Strings are sequences of atoms.  In the extractor an atom is a single   *)
(* character; in the oracle's response an atom is either the blank " " or  *)
(* an indivisible word that holds no blank.  The string functions of the   *)
(* Go library (TrimSpace, TrimLeft, HasPrefix, TrimPrefix, Join, ToLower)  *)
(* are operators over such sequences.                                      *)
(***************************************************************************)
EXTENDS Integers, Sequences, FiniteSets, TLC

VARIABLES
    \* ExtractSections (internal/extract)
    doc,              \* the document, as the lines strings.Split(doc, "\n") gives
    lines,            \* the lines left after skipYAMLFrontmatter
    pos,              \* index of the next line the loop reads
    sections,         \* the sections emitted so far
    nextID,
    currentHeading,
    currentBody,
    hasSeenHeading,
    inFence,
    fence,
    xpc,              \* "start" | "scan" | "done"
    \* Classify (internal/classify)
    clSections,       \* the sections argument
    agents,           \* the agents argument (<<>>: none given)
    decoded,          \* the oracle's decoded response (dispatchResponse.Sections)
    exitPath,         \* the return statement Classify left through
    result,           \* the ClassifyResult returned
    cpc,              \* "idle" | "start" | "dispatch" | "done"
    oracleStarts,     \* how often the call has started the dispatch process
    tempMade,         \* the temp files the call has created
    tempLive,         \* those of them that exist
    cancelled,        \* the context of the call is done
    \* Section.Preview (internal/extract)
    pvLines,          \* the lines the body was joined from
    pvBody,           \* Section.Body
    pvOut,            \* the string Preview returned
    ppc,              \* "start" | "done"
    \* stripCodeFences (internal/classify, internal/query)
    stRaw,            \* the raw oracle output
    stOut,            \* the string stripCodeFences returned
    spc,              \* "start" | "done"
    \* Query (internal/query)
    qQuestion,        \* the question argument
    qFiles,           \* the files argument
    qMode,            \* the mode argument
    qFS,              \* what os.Stat and os.ReadFile find for each path
    qResult,          \* the QueryResult returned
    qExitPath,        \* the return statement Query left through
    qOracleStarts,    \* how often the call has started the dispatch process
    qTempMade,        \* the temp files the call has created
    qTempLive,        \* those of them that exist
    qCancelled,       \* the context of the call is done
    qpc,              \* "idle" | "start" | "dispatch" | "done"
    qPrior,           \* what earlier calls with these arguments returned
    \* the result cache (internal/query)
    queryCache,       \* key -> cacheEntry
    cacheHits,
    cacheMisses,
    now,              \* the clock, in hours
    fsMtime,          \* path -> modification time, or NoFile
    cgKey,            \* the key of the last cacheGet
    cgResult,         \* what the last cacheGet returned, as its caller holds it
    cgAliased,        \* its FilesAnalyzed shares the array of the entry under cgKey
    lookups,          \* the calls of cacheGet that have returned
    \* the callers of the cache, each in a goroutine of its own
    cacheMu,          \* the goroutine that holds the mutex, "" if none
    gpc,              \* goroutine -> where it is in its call
    gframe,           \* goroutine -> its call, its locals and what it returned
    cache0,           \* the cache as the goroutines found it
    \* cacheKey (internal/query)
    ckCalls,          \* the calls of cacheKey that have returned
    \* the read hook (hooks/pre-read-intercept.sh)
    hFlag,            \* the toggle flag file exists
    hJq,              \* jq is installed
    hTmpWritable,     \* touch of a marker under /tmp/ succeeds
    hMarkers,         \* the deny markers under /tmp/
    hPayload,         \* the payload of the last run
    hOut,             \* what the last run wrote to its output
    hDenials,         \* how often each file was denied in each session
    hReads,           \* the runs of the hook that have ended
    hExit             \* the exit status of the last run, -1 before the first

extractVars == <<doc, lines, pos, sections, nextID, currentHeading, currentBody,
                 hasSeenHeading, inFence, fence, xpc>>
classifyVars == <<clSections, agents, decoded, exitPath, result, cpc,
                  oracleStarts, tempMade, tempLive, cancelled>>
previewVars == <<pvLines, pvBody, pvOut, ppc>>
stripVars == <<stRaw, stOut, spc>>
queryVars == <<qQuestion, qFiles, qMode, qFS, qResult, qExitPath, qOracleStarts,
               qTempMade, qTempLive, qCancelled, qpc, qPrior>>
cacheVars == <<queryCache, cacheHits, cacheMisses, now, fsMtime, cgKey, cgResult,
               cgAliased, lookups>>
lockVars == <<cacheMu, gpc, gframe, cache0>>
keyVars == <<ckCalls>>
hookVars == <<hFlag, hJq, hTmpWritable, hMarkers, hPayload, hOut, hDenials, hReads,
              hExit>>
nonExtractVars == <<classifyVars, previewVars, stripVars,
      queryVars, cacheVars,
      lockVars, keyVars, hookVars>>
nonClassifyVars == <<extractVars, previewVars, stripVars,
      queryVars, cacheVars,
      lockVars, keyVars, hookVars>>
nonPreviewVars == <<extractVars, classifyVars, stripVars,
      queryVars, cacheVars,
      lockVars, keyVars, hookVars>>
nonStripVars == <<extractVars, classifyVars, previewVars,
      queryVars, cacheVars,
      lockVars, keyVars, hookVars>>
nonQueryVars == <<extractVars, classifyVars, previewVars,
      stripVars, cacheVars,
      lockVars, keyVars, hookVars>>
nonCacheVars == <<extractVars, classifyVars, previewVars,
      stripVars, queryVars,
      lockVars, keyVars, hookVars>>
nonKeyVars == <<extractVars, classifyVars, previewVars, stripVars, queryVars,
      cacheVars, lockVars, hookVars>>
nonHookVars == <<extractVars, classifyVars, previewVars, stripVars, queryVars,
      cacheVars, lockVars, keyVars>>
\* What a step of a goroutine inside a cache call leaves alone.
nonLockVars == <<extractVars, classifyVars, previewVars, stripVars, queryVars,
      now, fsMtime, cgKey, cgResult, cgAliased, lookups, cache0, keyVars, hookVars>>
vars == <<extractVars, classifyVars, previewVars, stripVars, queryVars, cacheVars,
          lockVars, keyVars, hookVars>>

---------------------------------------------------------------------------
(* Bounds of the model. *)

MaxLines == 4          \* lines of a document given to ExtractSections
MaxSections == 2       \* sections given to Classify
MaxEntries == 2        \* entries of the oracle's response
MaxBodyLines == 102    \* lines of a body given to Preview
MaxPayloadLines == 4   \* lines of an oracle output given to stripCodeFences
MaxFiles == 2          \* files given to Query
MaxTime == 2           \* the last instant of the clock, in hours
MaxLookups == 3
MaxReads == 3        \* calls of cacheGet

---------------------------------------------------------------------------
(* Strings. *)

WhiteSpace == {" ", "\t", "\n", "\r"}

RECURSIVE TrimLeft(_, _)
TrimLeft(s, cutset) ==
    IF s # <<>> /\ Head(s) \in cutset THEN TrimLeft(Tail(s), cutset) ELSE s

RECURSIVE TrimRight(_, _)
TrimRight(s, cutset) ==
    IF s # <<>> /\ s[Len(s)] \in cutset
    THEN TrimRight(SubSeq(s, 1, Len(s) - 1), cutset)
    ELSE s

TrimSpace(s) == TrimRight(TrimLeft(s, WhiteSpace), WhiteSpace)

HasPrefix(s, prefix) ==
    Len(s) >= Len(prefix) /\ SubSeq(s, 1, Len(prefix)) = prefix

TrimPrefix(s, prefix) ==
    IF HasPrefix(s, prefix) THEN SubSeq(s, Len(prefix) + 1, Len(s)) ELSE s

\* elems[lo] sep ... sep elems[hi], by halves.
RECURSIVE JoinRange(_, _, _, _)
JoinRange(elems, lo, hi, sep) ==
    IF lo > hi THEN <<>>
    ELSE IF lo = hi THEN elems[lo]
    ELSE LET mid == (lo + hi) \div 2
         IN  JoinRange(elems, lo, mid, sep) \o sep
                 \o JoinRange(elems, mid + 1, hi, sep)

Join(elems, sep) == JoinRange(elems, 1, Len(elems), sep)

\* The Go string a sequence of atoms stands for.
RECURSIVE Str(_)
Str(s) == IF s = <<>> THEN "" ELSE Head(s) \o Str(Tail(s))

\* All sequences over S of length lo..hi.
SeqsOf(S, lo, hi) == UNION {[1..k -> S] : k \in lo..hi}

RECURSIVE SumSeq(_)
SumSeq(s) == IF s = <<>> THEN 0 ELSE Head(s) + SumSeq(Tail(s))

---------------------------------------------------------------------------
(* internal/extract: ExtractSections. *)

\* The backtick character (a TLA+ string cannot hold one).
BT == "^"

HeadingPrefix == <<"#", "#", " ">>
Backticks == <<BT, BT, BT>>
Tildes == <<"~", "~", "~">>
FrontmatterToken == <<"-", "-", "-">>
NoMarker == <<>>

\* The lines documents are made of.
LineKinds ==
    { <<>>,                                  \* an empty line
      <<"x">>,                               \* text
      <<"#", "#", " ", "A">>,                \* a heading
      <<" ", "#", "#", " ", "B", " ">>,      \* an indented heading
      <<"#", "#", "#", " ", "C">>,           \* a deeper heading: no boundary
      <<BT, BT, BT>>,                        \* a backtick fence marker
      <<" ", BT, BT, BT, BT, "g", "o">>,     \* a longer, indented one with a tag
      <<"~", "~", "~">>,                     \* a tilde fence marker
      <<" ">>,                               \* a blank line
      <<"-", "-", "-">>,                     \* the frontmatter separator
      <<"-", "-", "-", " ">> }               \* the same, with a trailing blank

\* A document is the non-empty sequence of lines strings.Split yields.
Docs == SeqsOf(LineKinds, 1, MaxLines)

splitLines(d) == IF d = << <<>> >> THEN <<>> ELSE d

FirstCloser(ls) ==
    CHOOSE i \in 2..Len(ls) :
        /\ TrimSpace(ls[i]) = FrontmatterToken
        /\ \A j \in 2..(i - 1) : TrimSpace(ls[j]) # FrontmatterToken

skipYAMLFrontmatterKeepsCloser(ls) ==
    IF Len(ls) = 0 THEN ls
    ELSE IF TrimSpace(ls[1]) # FrontmatterToken THEN ls
    ELSE IF \E i \in 2..Len(ls) : TrimSpace(ls[i]) = FrontmatterToken
         THEN SubSeq(ls, FirstCloser(ls), Len(ls))
         ELSE <<>>

skipYAMLFrontmatter(ls) ==
    IF Len(ls) = 0 THEN ls
    ELSE IF TrimSpace(ls[1]) # FrontmatterToken THEN ls
    ELSE IF \E i \in 2..Len(ls) : TrimSpace(ls[i]) = FrontmatterToken
         THEN SubSeq(ls, FirstCloser(ls) + 1, Len(ls))
         ELSE <<>>

fenceMarkerBackticksOnly(line) ==
    LET trimmed == TrimSpace(line)
    IN  IF HasPrefix(trimmed, Backticks) THEN Backticks ELSE NoMarker

fenceMarker(line) ==
    LET trimmed == TrimSpace(line)
    IN  IF HasPrefix(trimmed, Backticks) THEN Backticks
        ELSE IF HasPrefix(trimmed, Tildes) THEN Tildes
        ELSE NoMarker

\* The closure emit of ExtractSections: the sections and nextID it leaves.
emitBurnsID(secs, id, heading, bodyLines, isPreamble) ==
    LET body == Join(bodyLines, <<"\n">>)
    IN  IF isPreamble /\ TrimSpace(body) = <<>>
        THEN [sections |-> secs, nextID |-> id + 1]
        ELSE [sections |-> Append(secs, [ID |-> id, Heading |-> heading,
                                         Body |-> body,
                                         LineCount |-> Len(bodyLines)]),
              nextID |-> id + 1]

emitKeepsBlankPreamble(secs, id, heading, bodyLines, isPreamble) ==
    LET body == Join(bodyLines, <<"\n">>)
    IN  [sections |-> Append(secs, [ID |-> id, Heading |-> heading,
                                    Body |-> body,
                                    LineCount |-> Len(bodyLines)]),
         nextID |-> id + 1]

emitDropsEmptyBody(secs, id, heading, bodyLines, isPreamble) ==
    LET body == Join(bodyLines, <<"\n">>)
    IN  IF TrimSpace(body) = <<>>
        THEN [sections |-> secs, nextID |-> id]
        ELSE [sections |-> Append(secs, [ID |-> id, Heading |-> heading,
                                         Body |-> body,
                                         LineCount |-> Len(bodyLines)]),
              nextID |-> id + 1]

emit(secs, id, heading, bodyLines, isPreamble) ==
    LET body == Join(bodyLines, <<"\n">>)
    IN  IF isPreamble /\ TrimSpace(body) = <<>>
        THEN [sections |-> secs, nextID |-> id]
        ELSE [sections |-> Append(secs, [ID |-> id, Heading |-> heading,
                                         Body |-> body,
                                         LineCount |-> Len(bodyLines)]),
              nextID |-> id + 1]

\* A line the loop takes as a heading boundary.
IsBoundary(line, fenced) ==
    ~fenced /\ HasPrefix(TrimLeft(line, {" ", "\t"}), HeadingPrefix)

ExtractIdle ==
    /\ lines = <<>>
    /\ pos = 1
    /\ sections = <<>>
    /\ nextID = 1
    /\ currentHeading = "Preamble"
    /\ currentBody = <<>>
    /\ hasSeenHeading = FALSE
    /\ inFence = FALSE
    /\ fence = NoMarker
    /\ xpc = "start"

\* ExtractSections, up to the loop: splitLines and skipYAMLFrontmatter.
ExtractStart ==
    /\ xpc = "start"
    /\ lines' = skipYAMLFrontmatter(splitLines(doc))
    /\ xpc' = "scan"
    /\ UNCHANGED <<doc, pos, sections, nextID, currentHeading, currentBody,
                   hasSeenHeading, inFence, fence>>
    /\ UNCHANGED nonExtractVars

\* The iteration on a heading boundary with the heading line kept as the
\* first line of the new body.
ScanHeadingKeepsLine ==
    /\ xpc = "scan"
    /\ pos <= Len(lines)
    /\ IsBoundary(lines[pos], inFence)
    /\ LET trimmedLeft == TrimLeft(lines[pos], {" ", "\t"})
           e == emit(sections, nextID, currentHeading, currentBody, ~hasSeenHeading)
       IN  /\ sections' = e.sections
           /\ nextID' = e.nextID
           /\ hasSeenHeading' = TRUE
           /\ currentHeading' = Str(TrimSpace(TrimPrefix(trimmedLeft, HeadingPrefix)))
           /\ currentBody' = <<lines[pos]>>
    /\ pos' = pos + 1
    /\ UNCHANGED <<doc, lines, inFence, fence, xpc>>
    /\ UNCHANGED nonExtractVars

\* One iteration of the loop, on a heading boundary.
ScanHeading ==
    /\ xpc = "scan"
    /\ pos <= Len(lines)
    /\ IsBoundary(lines[pos], inFence)
    /\ LET trimmedLeft == TrimLeft(lines[pos], {" ", "\t"})
           e == emit(sections, nextID, currentHeading, currentBody, ~hasSeenHeading)
       IN  /\ sections' = e.sections
           /\ nextID' = e.nextID
           /\ hasSeenHeading' = TRUE
           /\ currentHeading' = Str(TrimSpace(TrimPrefix(trimmedLeft, HeadingPrefix)))
           /\ currentBody' = <<>>
    /\ pos' = pos + 1
    /\ UNCHANGED <<doc, lines, inFence, fence, xpc>>
    /\ UNCHANGED nonExtractVars

\* One iteration of the loop, on any other line.
ScanBodyClosesOnAnyMarker ==
    /\ xpc = "scan"
    /\ pos <= Len(lines)
    /\ ~IsBoundary(lines[pos], inFence)
    /\ currentBody' = Append(currentBody, lines[pos])
    /\ LET marker == fenceMarker(TrimLeft(lines[pos], {" ", "\t"}))
       IN  IF marker # NoMarker /\ ~inFence
           THEN inFence' = TRUE /\ fence' = marker
           ELSE IF marker # NoMarker
           THEN inFence' = FALSE /\ fence' = NoMarker
           ELSE UNCHANGED <<inFence, fence>>
    /\ pos' = pos + 1
    /\ UNCHANGED <<doc, lines, sections, nextID, currentHeading, hasSeenHeading, xpc>>
    /\ UNCHANGED nonExtractVars

ScanBody ==
    /\ xpc = "scan"
    /\ pos <= Len(lines)
    /\ ~IsBoundary(lines[pos], inFence)
    /\ currentBody' = Append(currentBody, lines[pos])
    /\ LET marker == fenceMarker(TrimLeft(lines[pos], {" ", "\t"}))
       IN  IF marker # NoMarker /\ ~inFence
           THEN inFence' = TRUE /\ fence' = marker
           ELSE IF marker # NoMarker /\ marker = fence
           THEN inFence' = FALSE /\ fence' = NoMarker
           ELSE UNCHANGED <<inFence, fence>>
    /\ pos' = pos + 1
    /\ UNCHANGED <<doc, lines, sections, nextID, currentHeading, hasSeenHeading, xpc>>
    /\ UNCHANGED nonExtractVars

\* The end of input: the final emit and the return.
ExtractReturn ==
    /\ xpc = "scan"
    /\ pos > Len(lines)
    /\ LET e == emit(sections, nextID, currentHeading, currentBody, ~hasSeenHeading)
       IN  /\ sections' = e.sections
           /\ nextID' = e.nextID
    /\ xpc' = "done"
    /\ UNCHANGED <<doc, lines, pos, currentHeading, currentBody, hasSeenHeading,
                   inFence, fence>>
    /\ UNCHANGED nonExtractVars

---------------------------------------------------------------------------
(* internal/extract: Section.Preview. *)

PreviewFullLimit == 100
PreviewShortLines == 50
PreviewEdgeLines == 25

\* strings.Split(s, sep) for a separator of one atom.
\* The pieces are those left and right of any one separator; the one taken
\* is the first at or after the middle, or else the last before it.
RECURSIVE Split(_, _)
Split(s, sep) ==
    IF \A k \in 1..Len(s) : s[k] # sep THEN <<s>>
    ELSE LET mid == (Len(s) + 1) \div 2
             k == IF \E i \in mid..Len(s) : s[i] = sep
                  THEN CHOOSE i \in mid..Len(s) :
                          s[i] = sep /\ \A j \in mid..(i - 1) : s[j] # sep
                  ELSE CHOOSE i \in 1..(mid - 1) :
                          s[i] = sep /\ \A j \in (i + 1)..(mid - 1) : s[j] # sep
         IN  Split(SubSeq(s, 1, k - 1), sep) \o Split(SubSeq(s, k + 1, Len(s)), sep)

splitBodyLines(body) == IF body = <<>> THEN <<>> ELSE Split(body, "\n")

Min(a, b) == IF a < b THEN a ELSE b

\* fmt.Sprintf("[... %d lines omitted ...]", omitted)
OmissionMarker(omitted) == <<"[... ", ToString(omitted), " lines omitted ...]">>

PreviewOmitsFromLimit(body) ==
    LET ls == splitBodyLines(body)
        count == Len(ls)
    IN  IF count = 0 THEN <<>>
        ELSE IF count < PreviewFullLimit
        THEN Join(SubSeq(ls, 1, Min(PreviewShortLines, count)), <<"\n">>)
        ELSE LET omitted == count - 50
                 head == Join(SubSeq(ls, 1, PreviewEdgeLines), <<"\n">>)
                 tail == Join(SubSeq(ls, count - PreviewEdgeLines + 1, count), <<"\n">>)
             IN  head \o <<"\n">> \o OmissionMarker(omitted) \o <<"\n">> \o tail

Preview(body) ==
    LET ls == splitBodyLines(body)
        count == Len(ls)
    IN  IF count = 0 THEN <<>>
        ELSE IF count <= PreviewFullLimit
        THEN Join(SubSeq(ls, 1, Min(PreviewShortLines, count)), <<"\n">>)
        ELSE LET omitted == count - 50
                 head == Join(SubSeq(ls, 1, PreviewEdgeLines), <<"\n">>)
                 tail == Join(SubSeq(ls, count - PreviewEdgeLines + 1, count), <<"\n">>)
             IN  head \o <<"\n">> \o OmissionMarker(omitted) \o <<"\n">> \o tail

\* The bodies Preview is given: n lines that are numbered, empty, or all "x".
BodyPatterns == {"numbered", "empty", "same"}
BodyLine(pattern, i) ==
    IF pattern = "numbered" THEN <<"line-", ToString(i)>>
    ELSE IF pattern = "empty" THEN <<>>
    ELSE <<"x">>
BodyLinesOf(pattern, n) == [i \in 1..n |-> BodyLine(pattern, i)]

PreviewIdle ==
    /\ pvLines = <<>>
    /\ pvBody = <<>>
    /\ pvOut = <<>>
    /\ ppc = "start"

PreviewCall ==
    /\ ppc = "start"
    /\ pvOut' = Preview(pvBody)
    /\ ppc' = "done"
    /\ UNCHANGED <<pvLines, pvBody>>
    /\ UNCHANGED nonPreviewVars

---------------------------------------------------------------------------
(* internal/classify, internal/query: stripCodeFences. *)

\* The lines oracle outputs are made of.
PayloadLineKinds ==
    { <<>>,                        \* an empty line
      <<" ">>,                     \* a blank line
      <<"{}">>,                    \* text
      <<BT, BT, BT>>,              \* a backtick marker
      <<BT, BT, BT, BT>>,          \* a longer one
      <<BT, BT, BT, "json">>,      \* one with a language tag
      <<"~", "~", "~">> }          \* a tilde marker

Payloads ==
    {Join(ls, <<"\n">>) : ls \in SeqsOf(PayloadLineKinds, 0, MaxPayloadLines)}

\* The loop of stripCodeFences that drops trailing blank lines.
RECURSIVE DropTrailingBlank(_)
DropTrailingBlank(ls) ==
    IF Len(ls) > 0 /\ TrimSpace(ls[Len(ls)]) = <<>>
    THEN DropTrailingBlank(SubSeq(ls, 1, Len(ls) - 1))
    ELSE ls

stripCodeFencesKeepsCloser(raw) ==
    LET trimmed == TrimSpace(raw)
    IN  IF ~HasPrefix(trimmed, Backticks) THEN trimmed
        ELSE LET rest == DropTrailingBlank(Tail(Split(trimmed, "\n")))
             IN  TrimSpace(Join(rest, <<"\n">>))

stripCodeFences(raw) ==
    LET trimmed == TrimSpace(raw)
    IN  IF ~HasPrefix(trimmed, Backticks) THEN trimmed
        ELSE LET rest == DropTrailingBlank(Tail(Split(trimmed, "\n")))
                 inner == IF Len(rest) > 0
                             /\ HasPrefix(TrimSpace(rest[Len(rest)]), Backticks)
                          THEN SubSeq(rest, 1, Len(rest) - 1)
                          ELSE rest
             IN  TrimSpace(Join(inner, <<"\n">>))

StripIdle ==
    /\ stRaw = <<>>
    /\ stOut = <<>>
    /\ spc = "start"

StripCall ==
    /\ spc = "start"
    /\ stOut' = stripCodeFences(stRaw)
    /\ spc' = "done"
    /\ UNCHANGED stRaw
    /\ UNCHANGED nonStripVars

---------------------------------------------------------------------------
(* internal/classify: the roster, normalizeAssignments, buildResult. *)

statusSuccess == "success"
statusNoClassification == "no_classification"

\* The names of DefaultAgents().
DefaultAgents ==
    <<"fd-safety", "fd-correctness", "fd-performance", "fd-user-product",
      "fd-game-design">>

CrossCuttingAgents == {"fd-architecture", "fd-quality"}

\* The thresholds of buildResult, in percent of the document's lines.
MismatchPercent == 10
CollapsePercent == 80

\* The agents arguments: none, and a roster a caller gives (parseAgentsArg
\* takes any distinct names, a cross-cutting one included).
AgentChoices ==
    { <<>>,
      <<"fd-safety", "fd-quality">> }

\* The line counts of sections, and the documents built of them: documents of
\* 0, 50 and 100 lines, where the shares 10%, 12%, 79% and 80% are whole
\* numbers of lines.
LineCounts == {0, 5, 6, 20, 21, 44, 45, 79, 80}
DocTotals == {0, 50, 100}
Headings == [i \in 1..(MaxSections + 1) |-> "S"]

SectionsOf(counts) ==
    [i \in 1..Len(counts) |->
        [ID |-> i, Heading |-> Headings[i], LineCount |-> counts[i]]]

SectionChoices ==
    {SectionsOf(counts) : counts \in
        {c \in SeqsOf(LineCounts, 0, MaxSections) : SumSeq(c) \in DocTotals}}

\* Documents of 0 and of 19 lines: of 19 lines, 2 are a share strictly between
\* 10% and 11% (its floor in percent is 10) and 17 are one above 80%.
ShareLineCounts == {0, 2, 17}
ShareTotals == {0, 19}

ShareSectionChoices ==
    {SectionsOf(counts) : counts \in
        {c \in SeqsOf(ShareLineCounts, 0, MaxSections) : SumSeq(c) \in ShareTotals}}

\* The assignments an oracle writes.  Confidence is in hundredths.
RawAssignments ==
    { [Agent |-> <<" ", "fd-safety">>, Relevance |-> <<"Priority", " ">>,
       Confidence |-> 150],
      [Agent |-> <<"fd-safety">>, Relevance |-> <<"context">>,
       Confidence |-> -50],
      [Agent |-> <<"fd-correctness">>, Relevance |-> <<"priority">>,
       Confidence |-> 90],
      [Agent |-> <<"fd-quality">>, Relevance |-> <<"priority">>,
       Confidence |-> 70],
      [Agent |-> <<"fd-safety">>, Relevance |-> <<"optional">>,
       Confidence |-> 50] }

\* The entries of a decoded response: a section id, known or not, with one
\* assignment, and an entry of section 1 with none.
ResponseEntries ==
    [SectionID : 1..(MaxSections + 1),
     Assignments : {<<a>> : a \in RawAssignments}]
        \cup {[SectionID |-> 1, Assignments |-> <<>>]}

Responses == SeqsOf(ResponseEntries, 0, MaxEntries)

ToLowerAtom(a) ==
    CASE a = "Priority" -> "priority"
      [] a = "Context" -> "context"
      [] OTHER -> a

ToLower(s) == [i \in 1..Len(s) |-> ToLowerAtom(s[i])]

EmptySlice ==
    [PrioritySections |-> <<>>, ContextSections |-> <<>>,
     TotalPriorityLines |-> 0, TotalContextLines |-> 0]

\* The roster a call works with.
Roster(ags) == IF Len(ags) = 0 THEN DefaultAgents ELSE ags

RosterNames(ags) == {Roster(ags)[i] : i \in 1..Len(Roster(ags))}

buildEmptySectionsSkipsEmpty(secs) ==
    SelectSeq([i \in 1..Len(secs) |->
                  [SectionID |-> secs[i].ID, Heading |-> secs[i].Heading,
                   LineCount |-> secs[i].LineCount, Assignments |-> <<>>]],
              LAMBDA sec : sec.LineCount > 0)

buildEmptySections(secs) ==
    [i \in 1..Len(secs) |->
        [SectionID |-> secs[i].ID, Heading |-> secs[i].Heading,
         LineCount |-> secs[i].LineCount, Assignments |-> <<>>]]

buildEmptySlicingMap(ags) == [a \in RosterNames(ags) |-> EmptySlice]

Clamp01(c) == IF c < 0 THEN 0 ELSE IF c > 100 THEN 100 ELSE c

\* normalizeAssignments without the test of the agent.
RECURSIVE normalizeAssignmentsKeepsAnyAgent(_, _)
normalizeAssignmentsKeepsAnyAgent(in, allowed) ==
    IF in = <<>> THEN <<>>
    ELSE LET a == Head(in)
             agent == Str(TrimSpace(a.Agent))
             relevance == Str(TrimSpace(ToLower(a.Relevance)))
             rest == normalizeAssignmentsKeepsAnyAgent(Tail(in), allowed)
         IN  IF relevance # "priority" /\ relevance # "context" THEN rest
             ELSE <<[Agent |-> agent, Relevance |-> relevance,
                     Confidence |-> Clamp01(a.Confidence)]>> \o rest

RECURSIVE normalizeAssignments(_, _)
normalizeAssignments(in, allowed) ==
    IF in = <<>> THEN <<>>
    ELSE LET a == Head(in)
             agent == Str(TrimSpace(a.Agent))
             relevance == Str(TrimSpace(ToLower(a.Relevance)))
             rest == normalizeAssignments(Tail(in), allowed)
         IN  IF agent \notin allowed THEN rest
             ELSE IF relevance # "priority" /\ relevance # "context" THEN rest
             ELSE <<[Agent |-> agent, Relevance |-> relevance,
                     Confidence |-> Clamp01(a.Confidence)]>> \o rest

\* Classify, lines 153-156: the response gathered by section id.
RECURSIVE classifiedOf(_)
classifiedOf(resp) ==
    IF resp = <<>> THEN <<>>
    ELSE LET before == classifiedOf(SubSeq(resp, 1, Len(resp) - 1))
             e == resp[Len(resp)]
             old == IF e.SectionID \in DOMAIN before THEN before[e.SectionID]
                    ELSE <<>>
         IN  [id \in DOMAIN before \cup {e.SectionID} |->
                 IF id = e.SectionID THEN old \o e.Assignments ELSE before[id]]

SetKey(m, k, v) == [x \in DOMAIN m \cup {k} |-> IF x = k THEN v ELSE m[x]]

\* accumulate without the seen maps' guard on the totals.
accumulateCountsRepeats(acc, section, a) ==
    LET slice == IF a.Agent \in DOMAIN acc.SlicingMap
                 THEN acc.SlicingMap[a.Agent] ELSE EmptySlice
        key == <<a.Agent, section.ID>>
    IN  IF a.Relevance = "priority"
        THEN [acc EXCEPT
                !.SlicingMap = SetKey(@, a.Agent,
                    [slice EXCEPT
                       !.PrioritySections =
                           IF key \in acc.prioritySeen THEN @
                           ELSE Append(@, section.ID),
                       !.TotalPriorityLines = @ + section.LineCount]),
                !.prioritySeen = @ \cup {key}]
        ELSE [acc EXCEPT
                !.SlicingMap = SetKey(@, a.Agent,
                    [slice EXCEPT
                       !.ContextSections =
                           IF key \in acc.contextSeen THEN @
                           ELSE Append(@, section.ID),
                       !.TotalContextLines = @ + section.LineCount]),
                !.contextSeen = @ \cup {key}]

\* accumulate without the seen maps.
accumulateListsRepeats(acc, section, a) ==
    LET slice == IF a.Agent \in DOMAIN acc.SlicingMap
                 THEN acc.SlicingMap[a.Agent] ELSE EmptySlice
    IN  IF a.Relevance = "priority"
        THEN [acc EXCEPT
                !.SlicingMap = SetKey(@, a.Agent,
                    [slice EXCEPT
                       !.PrioritySections = Append(@, section.ID),
                       !.TotalPriorityLines = @ + section.LineCount])]
        ELSE [acc EXCEPT
                !.SlicingMap = SetKey(@, a.Agent,
                    [slice EXCEPT
                       !.ContextSections = Append(@, section.ID),
                       !.TotalContextLines = @ + section.LineCount])]

\* buildResult, lines 230-252: one assignment of one section.
accumulate(acc, section, a) ==
    LET slice == IF a.Agent \in DOMAIN acc.SlicingMap
                 THEN acc.SlicingMap[a.Agent] ELSE EmptySlice
        key == <<a.Agent, section.ID>>
    IN  IF a.Relevance = "priority"
        THEN IF key \notin acc.prioritySeen
             THEN [acc EXCEPT
                     !.SlicingMap = SetKey(@, a.Agent,
                         [slice EXCEPT
                            !.PrioritySections = Append(@, section.ID),
                            !.TotalPriorityLines = @ + section.LineCount]),
                     !.prioritySeen = @ \cup {key}]
             ELSE [acc EXCEPT !.SlicingMap = SetKey(@, a.Agent, slice)]
        ELSE IF key \notin acc.contextSeen
             THEN [acc EXCEPT
                     !.SlicingMap = SetKey(@, a.Agent,
                         [slice EXCEPT
                            !.ContextSections = Append(@, section.ID),
                            !.TotalContextLines = @ + section.LineCount]),
                     !.contextSeen = @ \cup {key}]
             ELSE [acc EXCEPT !.SlicingMap = SetKey(@, a.Agent, slice)]

RECURSIVE accumulateAll(_, _, _)
accumulateAll(acc, section, normalized) ==
    IF normalized = <<>> THEN acc
    ELSE accumulateAll(accumulate(acc, section, Head(normalized)), section,
                       Tail(normalized))

\* The loop over the sections with an id beyond the last section's taken for
\* the last section's.
RECURSIVE aggregateClampsIDs(_, _, _, _)
aggregateClampsIDs(acc, classified, secs, allowed) ==
    IF secs = <<>> THEN acc
    ELSE LET section == Head(secs)
             own == IF section.ID \in DOMAIN classified
                    THEN classified[section.ID] ELSE <<>>
             beyond == section.ID + 1
             raw == IF Tail(secs) = <<>> /\ beyond \in DOMAIN classified
                    THEN own \o classified[beyond] ELSE own
             normalized == normalizeAssignments(raw, allowed)
             withSection ==
                 [acc EXCEPT
                    !.totalLines = @ + section.LineCount,
                    !.Sections = Append(@,
                        [SectionID |-> section.ID, Heading |-> section.Heading,
                         LineCount |-> section.LineCount,
                         Assignments |-> normalized])]
         IN  aggregateClampsIDs(accumulateAll(withSection, section, normalized),
                                classified, Tail(secs), allowed)

\* buildResult, lines 219-253: the loop over the sections.
RECURSIVE aggregate(_, _, _, _)
aggregate(acc, classified, secs, allowed) ==
    IF secs = <<>> THEN acc
    ELSE LET section == Head(secs)
             raw == IF section.ID \in DOMAIN classified
                    THEN classified[section.ID] ELSE <<>>
             normalized == normalizeAssignments(raw, allowed)
             withSection ==
                 [acc EXCEPT
                    !.totalLines = @ + section.LineCount,
                    !.Sections = Append(@,
                        [SectionID |-> section.ID, Heading |-> section.Heading,
                         LineCount |-> section.LineCount,
                         Assignments |-> normalized])]
         IN  aggregate(accumulateAll(withSection, section, normalized),
                       classified, Tail(secs), allowed)

\* sort.Ints, as an insertion sort.
RECURSIVE Insert(_, _)
Insert(x, sorted) ==
    IF sorted = <<>> THEN <<x>>
    ELSE IF x <= Head(sorted) THEN <<x>> \o sorted
    ELSE <<Head(sorted)>> \o Insert(x, Tail(sorted))

RECURSIVE SortInts(_)
SortInts(s) == IF s = <<>> THEN <<>> ELSE Insert(Head(s), SortInts(Tail(s)))

sortSlices(m) ==
    [a \in DOMAIN m |->
        [m[a] EXCEPT !.PrioritySections = SortInts(@),
                     !.ContextSections = SortInts(@)]]

\* The guard with >= for >.
anyAtOrAboveThreshold(m, roster, totalLines) ==
    \E i \in 1..Len(roster) :
        (m[roster[i]].TotalPriorityLines * 100) \div totalLines >= MismatchPercent

\* The guard run over every agent of the slicing map, not over the roster.
anyAgentAboveThreshold(m, roster, totalLines) ==
    \E a \in DOMAIN m :
        (m[a].TotalPriorityLines * 100) \div totalLines > MismatchPercent

\* The guard run over the roster and the cross-cutting reviewers alike.
anyAllowedAboveThreshold(m, roster, totalLines) ==
    \/ \E i \in 1..Len(roster) :
          (m[roster[i]].TotalPriorityLines * 100) \div totalLines > MismatchPercent
    \/ \E a \in CrossCuttingAgents \cap DOMAIN m :
          (m[a].TotalPriorityLines * 100) \div totalLines > MismatchPercent

\* The guard on the share as a fraction, not on its floor in percent.
anyAboveTrueShare(m, roster, totalLines) ==
    \E i \in 1..Len(roster) :
        m[roster[i]].TotalPriorityLines * 100 > MismatchPercent * totalLines

\* buildResult, lines 266-272.
anyAboveThreshold(m, roster, totalLines) ==
    \E i \in 1..Len(roster) :
        (m[roster[i]].TotalPriorityLines * 100) \div totalLines > MismatchPercent

\* The collapse test with > for >=.
collapsesAbove(slice, totalLines) ==
    (slice.TotalPriorityLines * 100) \div totalLines > CollapsePercent

\* buildResult, line 287.
collapses(slice, totalLines) ==
    (slice.TotalPriorityLines * 100) \div totalLines >= CollapsePercent

\* buildResult, lines 280-294: the loop over the roster.
RECURSIVE collapseAll(_, _, _, _, _)
collapseAll(m, roster, i, allSectionIDs, totalLines) ==
    IF i > Len(roster) THEN m
    ELSE LET slice == m[roster[i]]
             next == IF collapses(slice, totalLines)
                     THEN SetKey(m, roster[i],
                            [PrioritySections |-> allSectionIDs,
                             ContextSections |-> <<>>,
                             TotalPriorityLines |-> totalLines,
                             TotalContextLines |-> 0])
                     ELSE m
         IN  collapseAll(next, roster, i + 1, allSectionIDs, totalLines)

\* The zero-total return answered as the guard would with every share at 0.
unclassifiedAsMismatch(secs, slices) ==
    [Status |-> statusNoClassification, Sections |-> secs,
     SlicingMap |-> slices,
     Error |-> "domain mismatch: no agent has >10% priority lines"]

\* buildResult, lines 210-214 and 261-263: the result as initialised and
\* aggregated, returned before the guard and the collapse.
unclassified(secs, slices) ==
    [Status |-> statusNoClassification, Sections |-> secs,
     SlicingMap |-> slices, Error |-> ""]

buildResult(classified, secs, ags) ==
    LET roster == Roster(ags)
        allowed == RosterNames(ags) \cup CrossCuttingAgents
        acc == aggregate([Sections |-> <<>>,
                          SlicingMap |-> buildEmptySlicingMap(roster),
                          prioritySeen |-> {}, contextSeen |-> {},
                          totalLines |-> 0],
                         classified, secs, allowed)
        sorted == sortSlices(acc.SlicingMap)
        totalLines == acc.totalLines
        allSectionIDs == [i \in 1..Len(secs) |-> secs[i].ID]
    IN  IF totalLines <= 0
        THEN unclassified(acc.Sections, sorted)
        ELSE IF ~anyAboveThreshold(sorted, roster, totalLines)
        THEN [Status |-> statusNoClassification, Sections |-> acc.Sections,
              SlicingMap |-> sorted,
              Error |-> "domain mismatch: no agent has >10% priority lines"]
        ELSE [Status |-> statusSuccess, Sections |-> acc.Sections,
              SlicingMap |-> collapseAll(sorted, roster, 1, allSectionIDs,
                                         totalLines),
              Error |-> ""]

\* classifyError without the text of the failure.
classifyErrorWithoutText(err, secs, ags, context) ==
    [Status |-> statusNoClassification,
     Sections |-> buildEmptySections(secs),
     SlicingMap |-> buildEmptySlicingMap(ags),
     Error |-> ""]

classifyError(err, secs, ags, context) ==
    [Status |-> statusNoClassification,
     Sections |-> buildEmptySections(secs),
     SlicingMap |-> buildEmptySlicingMap(ags),
     Error |-> context \o ": " \o err]

---------------------------------------------------------------------------
(* internal/classify: Classify. *)

\* The places where Classify gives up on a temp file.
TempFileContexts ==
    {"create prompt temp file", "write prompt temp file",
     "close prompt temp file", "create output temp file",
     "close output temp file"}

\* The temp files os.CreateTemp has made when Classify gives up at context.
TempMadeAt(context) ==
    IF context = "create prompt temp file" THEN {}
    ELSE IF context = "close output temp file" THEN {"prompt", "output"}
    ELSE {"prompt"}

\* Those of them no deferred os.Remove covers: the removal of the output file
\* is deferred only once the file has been closed.
TempLeftAt(context) ==
    IF context = "close output temp file" THEN {"output"} ELSE {}

\* What the dispatch process leaves on its combined output when it fails.
FailureOutputs == {<<>>, <<" ", "boom", "\n">>}

\* What a dispatch that ended well leaves in the output file and on its
\* combined output.  "{..}" stands for a JSON text, "oops" for another text.
RawOutputs ==
    { <<>>, <<" ", "\n">>,
      <<"{..}", "\n">>,
      <<BT, BT, BT, "json", "\n", "{..}", "\n", BT, BT, BT, "\n">>,
      <<BT, BT, BT, "\n", BT, BT, BT>>,
      <<"oops">> }
CombinedOutputs == {<<>>, <<"{..}">>, <<"oops", "\n">>}

\* Classify, lines 129-133.
PayloadOf(rawOutput, combined) ==
    LET payload == IF TrimSpace(rawOutput) = <<>> THEN TrimSpace(combined)
                   ELSE TrimSpace(rawOutput)
    IN  stripCodeFences(payload)

\* The payloads a dispatch that ended well can leave.
DispatchPayloads ==
    {PayloadOf(rawOutput, combined) :
        rawOutput \in RawOutputs, combined \in CombinedOutputs}

\* json.Unmarshal takes the payload.
IsJSON(payload) == payload = <<"{..}">>

IOError == "input/output error"
ExitError == "exit status 1"

\* The context given to Classify is cancelled before the call has returned.
ClassifyCancel ==
    /\ cpc \in {"start", "dispatch"}
    /\ ~cancelled
    /\ cancelled' = TRUE
    /\ UNCHANGED <<clSections, agents, decoded, exitPath, result, cpc,
                   oracleStarts, tempMade, tempLive>>
    /\ UNCHANGED nonClassifyVars

\* Classify, lines 65-72.
ClassifyNoSectionsDispatches ==
    /\ cpc = "start"
    /\ Len(clSections) = 0
    /\ cpc' = "dispatch"
    /\ oracleStarts' = oracleStarts + 1
    /\ tempMade' = {"prompt", "output"}
    /\ tempLive' = {"prompt", "output"}
    /\ UNCHANGED <<clSections, agents, decoded, exitPath, result, cancelled>>
    /\ UNCHANGED nonClassifyVars

ClassifyNoSections ==
    /\ cpc = "start"
    /\ Len(clSections) = 0
    /\ result' = [Status |-> statusNoClassification, Sections |-> <<>>,
                  SlicingMap |-> <<>>, Error |-> "no sections to classify"]
    /\ exitPath' = "no sections"
    /\ cpc' = "done"
    /\ UNCHANGED <<clSections, agents, decoded, oracleStarts, tempMade,
                   tempLive, cancelled>>
    /\ UNCHANGED nonClassifyVars

\* Classify, lines 76-99: a temp file cannot be created, written or closed.
ClassifyTempFileError ==
    /\ cpc = "start"
    /\ Len(clSections) # 0
    /\ \E context \in TempFileContexts :
          /\ result' = classifyError(IOError, clSections, agents, context)
          /\ exitPath' = context
          /\ tempMade' = TempMadeAt(context)
          /\ tempLive' = TempLeftAt(context)
    /\ cpc' = "done"
    /\ UNCHANGED <<clSections, agents, decoded, oracleStarts, cancelled>>
    /\ UNCHANGED nonClassifyVars

\* Classify, lines 74-110: the prompt is written and the dispatch started
\* (a command whose context is cancelled already is not started).
ClassifyDispatch ==
    /\ cpc = "start"
    /\ Len(clSections) # 0
    /\ cpc' = "dispatch"
    /\ oracleStarts' = IF cancelled THEN oracleStarts ELSE oracleStarts + 1
    /\ tempMade' = {"prompt", "output"}
    /\ tempLive' = {"prompt", "output"}
    /\ UNCHANGED <<clSections, agents, decoded, exitPath, result, cancelled>>
    /\ UNCHANGED nonClassifyVars

\* Classify, lines 111-122: the dispatch ends with an error (its own, or the
\* one of a cancelled context, which kills the process).
DispatchFailed ==
    /\ cpc = "dispatch"
    /\ \E combined \in FailureOutputs :
          LET stderr == IF Str(TrimSpace(combined)) = "" THEN ExitError
                        ELSE Str(TrimSpace(combined))
          IN  result' = [Status |-> statusNoClassification,
                         Sections |-> buildEmptySections(clSections),
                         SlicingMap |-> buildEmptySlicingMap(agents),
                         Error |-> "dispatch failed: " \o stderr]
    /\ exitPath' = "dispatch failed"
    /\ cpc' = "done"
    /\ tempLive' = {}
    /\ UNCHANGED <<clSections, agents, decoded, oracleStarts, tempMade, cancelled>>
    /\ UNCHANGED nonClassifyVars

\* Classify, lines 124-127: the output file cannot be read.
DispatchReadError ==
    /\ cpc = "dispatch"
    /\ ~cancelled
    /\ result' = classifyError(IOError, clSections, agents, "read dispatch output")
    /\ exitPath' = "read dispatch output"
    /\ cpc' = "done"
    /\ tempLive' = {}
    /\ UNCHANGED <<clSections, agents, decoded, oracleStarts, tempMade, cancelled>>
    /\ UNCHANGED nonClassifyVars

\* Classify, lines 129-141: nothing is left of the output once stripped.
DispatchEmptyOutput ==
    /\ cpc = "dispatch"
    /\ ~cancelled
    /\ \E payload \in DispatchPayloads : payload = <<>>
    /\ result' = [Status |-> statusNoClassification,
                  Sections |-> buildEmptySections(clSections),
                  SlicingMap |-> buildEmptySlicingMap(agents),
                  Error |-> "dispatch returned empty classification output"]
    /\ exitPath' = "empty output"
    /\ cpc' = "done"
    /\ tempLive' = {}
    /\ UNCHANGED <<clSections, agents, decoded, oracleStarts, tempMade, cancelled>>
    /\ UNCHANGED nonClassifyVars

\* Classify, lines 143-151: the payload is no JSON of the response's shape.
DispatchInvalidJSON ==
    /\ cpc = "dispatch"
    /\ ~cancelled
    /\ \E payload \in DispatchPayloads : payload # <<>> /\ ~IsJSON(payload)
    /\ result' = [Status |-> statusNoClassification,
                  Sections |-> buildEmptySections(clSections),
                  SlicingMap |-> buildEmptySlicingMap(agents),
                  Error |-> "invalid classification JSON: invalid character 'o' looking for beginning of value"]
    /\ exitPath' = "invalid JSON"
    /\ cpc' = "done"
    /\ tempLive' = {}
    /\ UNCHANGED <<clSections, agents, decoded, oracleStarts, tempMade, cancelled>>
    /\ UNCHANGED nonClassifyVars

\* Classify, lines 143-158: the payload decodes and buildResult runs.
DispatchClassified ==
    /\ cpc = "dispatch"
    /\ ~cancelled
    /\ \E payload \in DispatchPayloads : IsJSON(payload)
    /\ \E resp \in Responses :
          /\ decoded' = resp
          /\ result' = buildResult(classifiedOf(resp), clSections, agents)
    /\ exitPath' = "buildResult"
    /\ cpc' = "done"
    /\ tempLive' = {}
    /\ UNCHANGED <<clSections, agents, oracleStarts, tempMade, cancelled>>
    /\ UNCHANGED nonClassifyVars

\* The state of a call of Classify before its first statement.
ClassifyEntry ==
    /\ decoded = <<>>
    /\ exitPath = "none"
    /\ result = [Status |-> "", Sections |-> <<>>, SlicingMap |-> <<>>, Error |-> ""]
    /\ oracleStarts = 0
    /\ tempMade = {}
    /\ tempLive = {}
    /\ cancelled = FALSE

ClassifyIdle ==
    /\ clSections = <<>>
    /\ agents = <<>>
    /\ ClassifyEntry
    /\ cpc = "start"

---------------------------------------------------------------------------
(* internal/query: Query. *)

ModeAnswer == "answer"
ModeSummarize == "summarize"
ModeExtract == "extract"

\* The arguments of Query.
ModeChoices == {"", ModeAnswer, ModeSummarize, ModeExtract, "explain"}
QuestionChoices == {<<>>, <<" ", "\t">>, <<"why", " ", "so">>}
FileNames == {"a.go", "b.go"}
FileChoices == SeqsOf(FileNames, 0, MaxFiles)

\* What a path holds: nothing, more than maxFileSizeBytes, a file that
\* cannot be read, or a text of so many lines.
FileStates == {"missing", "big", "unreadable", "ok"}
FileLines == [f \in FileNames |-> IF f = "a.go" THEN 3 ELSE 5]

\* Query, lines 23-25.
EffectiveMode(mode) == IF mode = "" THEN ModeAnswer ELSE mode

FirstBadFileAllowsBig(files, fs) ==
    IF \A i \in 1..Len(files) : fs[files[i]] \in {"ok", "big"} THEN 0
    ELSE CHOOSE i \in 1..Len(files) :
            /\ fs[files[i]] \notin {"ok", "big"}
            /\ \A j \in 1..(i - 1) : fs[files[j]] \in {"ok", "big"}

\* The position of the first file the loop of lines 52-81 stops at, 0 if none.
FirstBadFile(files, fs) ==
    IF \A i \in 1..Len(files) : fs[files[i]] = "ok" THEN 0
    ELSE CHOOSE i \in 1..Len(files) :
            /\ fs[files[i]] # "ok"
            /\ \A j \in 1..(i - 1) : fs[files[j]] = "ok"

FileErrorOf(path, state) ==
    IF state = "missing" THEN "file not found: " \o path
    ELSE IF state = "big" THEN "file too large: " \o path
    ELSE "read " \o path \o ": permission denied"

\* totalLines of Query, lines 51-81.
RECURSIVE TotalFileLines(_)
TotalFileLines(files) ==
    IF files = <<>> THEN 0
    ELSE FileLines[Head(files)] + TotalFileLines(Tail(files))

EmptyQueryResult ==
    [Status |-> "", Answer |-> "", FilesAnalyzed |-> <<>>, LineCountSaved |-> 0,
     Mode |-> "", Error |-> ""]

queryError(err, files, mode, context) ==
    [EmptyQueryResult EXCEPT !.Status = "error", !.Mode = mode,
                             !.FilesAnalyzed = files,
                             !.Error = context \o ": " \o err]

\* The arguments pass the tests of lines 26-47.
QueryArgsValid ==
    /\ EffectiveMode(qMode) \in {ModeAnswer, ModeSummarize, ModeExtract}
    /\ ~(EffectiveMode(qMode) = ModeAnswer /\ TrimSpace(qQuestion) = <<>>)
    /\ Len(qFiles) # 0

QueryReturn(res, path) ==
    /\ qResult' = res
    /\ qExitPath' = path
    /\ qpc' = "done"
    /\ UNCHANGED <<qQuestion, qFiles, qMode, qFS, qCancelled, qPrior>>
    /\ UNCHANGED nonQueryVars

\* The context given to Query is cancelled before the call has returned.
QueryCancel ==
    /\ qpc \in {"start", "dispatch"}
    /\ ~qCancelled
    /\ qCancelled' = TRUE
    /\ UNCHANGED <<qQuestion, qFiles, qMode, qFS, qResult, qExitPath,
                   qOracleStarts, qTempMade, qTempLive, qpc, qPrior>>
    /\ UNCHANGED nonQueryVars

\* Query, lines 26-32.
QueryInvalidMode ==
    /\ qpc = "start"
    /\ EffectiveMode(qMode) \notin {ModeAnswer, ModeSummarize, ModeExtract}
    /\ QueryReturn([EmptyQueryResult EXCEPT
                       !.Status = "error", !.Mode = EffectiveMode(qMode),
                       !.Error = "invalid mode \"" \o EffectiveMode(qMode)
                           \o "\": must be answer, summarize, or extract"],
                   "invalid mode")
    /\ UNCHANGED <<qOracleStarts, qTempMade, qTempLive>>

\* Query, lines 33-39.
QueryNoQuestion ==
    /\ qpc = "start"
    /\ EffectiveMode(qMode) \in {ModeAnswer, ModeSummarize, ModeExtract}
    /\ EffectiveMode(qMode) = ModeAnswer
    /\ TrimSpace(qQuestion) = <<>>
    /\ QueryReturn([EmptyQueryResult EXCEPT
                       !.Status = "error", !.Mode = EffectiveMode(qMode),
                       !.Error = "question is required for answer mode"],
                   "no question")
    /\ UNCHANGED <<qOracleStarts, qTempMade, qTempLive>>

\* Query, lines 40-46.
QueryNoFiles ==
    /\ qpc = "start"
    /\ EffectiveMode(qMode) \in {ModeAnswer, ModeSummarize, ModeExtract}
    /\ ~(EffectiveMode(qMode) = ModeAnswer /\ TrimSpace(qQuestion) = <<>>)
    /\ Len(qFiles) = 0
    /\ QueryReturn([EmptyQueryResult EXCEPT
                       !.Status = "error", !.Mode = EffectiveMode(qMode),
                       !.Error = "at least one file is required"],
                   "no files")
    /\ UNCHANGED <<qOracleStarts, qTempMade, qTempLive>>

\* Query, lines 49-81: a file is missing, too large or unreadable.
QueryFileError ==
    /\ qpc = "start"
    /\ QueryArgsValid
    /\ FirstBadFile(qFiles, qFS) # 0
    /\ LET path == qFiles[FirstBadFile(qFiles, qFS)]
       IN  QueryReturn([EmptyQueryResult EXCEPT
                          !.Status = "error", !.Mode = EffectiveMode(qMode),
                          !.FilesAnalyzed = qFiles,
                          !.Error = FileErrorOf(path, qFS[path])],
                       "file error")
    /\ UNCHANGED <<qOracleStarts, qTempMade, qTempLive>>

\* Query, lines 86-109: a temp file cannot be created, written or closed.
QueryTempFileError ==
    /\ qpc = "start"
    /\ QueryArgsValid
    /\ FirstBadFile(qFiles, qFS) = 0
    /\ \E context \in TempFileContexts :
          /\ QueryReturn(queryError(IOError, qFiles, EffectiveMode(qMode), context),
                         context)
          /\ qTempMade' = TempMadeAt(context)
          /\ qTempLive' = TempLeftAt(context)
    /\ UNCHANGED qOracleStarts

\* Query, lines 84-120: the prompt is written and the dispatch started (a
\* command whose context is cancelled already is not started).
QueryDispatch ==
    /\ qpc = "start"
    /\ QueryArgsValid
    /\ FirstBadFile(qFiles, qFS) = 0
    /\ qpc' = "dispatch"
    /\ qOracleStarts' = IF qCancelled THEN qOracleStarts ELSE qOracleStarts + 1
    /\ qTempMade' = {"prompt", "output"}
    /\ qTempLive' = {"prompt", "output"}
    /\ UNCHANGED <<qQuestion, qFiles, qMode, qFS, qResult, qExitPath, qCancelled,
                   qPrior>>
    /\ UNCHANGED nonQueryVars

\* Query, lines 121-132: the dispatch ends with an error (its own, or the one
\* of a cancelled context, which kills the process).
QueryDispatchFailedRestarts ==
    /\ qpc = "dispatch"
    /\ qpc' = "start"
    /\ UNCHANGED <<qQuestion, qFiles, qMode, qFS, qResult, qExitPath,
                   qOracleStarts, qTempMade, qTempLive, qCancelled, qPrior>>
    /\ UNCHANGED nonQueryVars

QueryDispatchFailedGivesAnswer ==
    /\ qpc = "dispatch"
    /\ QueryReturn([EmptyQueryResult EXCEPT
                       !.Status = "success", !.Mode = EffectiveMode(qMode),
                       !.FilesAnalyzed = qFiles, !.Answer = "boom",
                       !.LineCountSaved = TotalFileLines(qFiles)],
                   "dispatch failed")
    /\ qTempLive' = {}
    /\ UNCHANGED <<qOracleStarts, qTempMade>>

QueryDispatchFailed ==
    /\ qpc = "dispatch"
    /\ \E combined \in FailureOutputs :
          LET stderr == IF Str(TrimSpace(combined)) = "" THEN ExitError
                        ELSE Str(TrimSpace(combined))
          IN  QueryReturn([EmptyQueryResult EXCEPT
                             !.Status = "error", !.Mode = EffectiveMode(qMode),
                             !.FilesAnalyzed = qFiles,
                             !.Error = "dispatch failed: " \o stderr],
                          "dispatch failed")
    /\ qTempLive' = {}
    /\ UNCHANGED <<qOracleStarts, qTempMade>>

\* Query, lines 134-137: the output file cannot be read.
QueryReadError ==
    /\ qpc = "dispatch"
    /\ ~qCancelled
    /\ QueryReturn(queryError(IOError, qFiles, EffectiveMode(qMode),
                               "read dispatch output"),
                   "read dispatch output")
    /\ qTempLive' = {}
    /\ UNCHANGED <<qOracleStarts, qTempMade>>

\* Query, lines 139-152: nothing is left of the output once stripped.
QueryEmptyOutput ==
    /\ qpc = "dispatch"
    /\ ~qCancelled
    /\ \E payload \in DispatchPayloads : payload = <<>>
    /\ QueryReturn([EmptyQueryResult EXCEPT
                       !.Status = "error", !.Mode = EffectiveMode(qMode),
                       !.FilesAnalyzed = qFiles,
                       !.Error = "dispatch returned empty output"],
                   "empty output")
    /\ qTempLive' = {}
    /\ UNCHANGED <<qOracleStarts, qTempMade>>

\* Query, lines 154-160: the answer.
QueryAnswered ==
    /\ qpc = "dispatch"
    /\ ~qCancelled
    /\ \E payload \in DispatchPayloads :
          /\ payload # <<>>
          /\ QueryReturn([EmptyQueryResult EXCEPT
                             !.Status = "success", !.Mode = EffectiveMode(qMode),
                             !.FilesAnalyzed = qFiles,
                             !.Answer = Str(payload),
                             !.LineCountSaved = TotalFileLines(qFiles)],
                          "answered")
    /\ qTempLive' = {}
    /\ UNCHANGED <<qOracleStarts, qTempMade>>

\* The caller calls Query once more with the arguments of the call that
\* has returned, the files being as they were.
QueryAgain ==
    /\ qpc = "done"
    /\ qPrior = <<>>
    /\ qPrior' = <<[result |-> qResult, starts |-> qOracleStarts]>>
    /\ qResult' = EmptyQueryResult
    /\ qExitPath' = "none"
    /\ qOracleStarts' = 0
    /\ qTempMade' = {}
    /\ qTempLive' = {}
    /\ qCancelled' = FALSE
    /\ qpc' = "start"
    /\ UNCHANGED <<qQuestion, qFiles, qMode, qFS>>
    /\ UNCHANGED nonQueryVars

\* No call of Query is under way.
QueryIdle ==
    /\ qQuestion = <<>>
    /\ qFiles = <<>>
    /\ qMode = ""
    /\ qFS = [f \in FileNames |-> "missing"]
    /\ qResult = EmptyQueryResult
    /\ qExitPath = "none"
    /\ qOracleStarts = 0
    /\ qTempMade = {}
    /\ qTempLive = {}
    /\ qCancelled = FALSE
    /\ qpc = "idle"
    /\ qPrior = <<>>

\* No call of Classify is under way.
ClassifyNotCalled ==
    /\ clSections = <<>>
    /\ agents = <<>>
    /\ ClassifyEntry
    /\ cpc = "idle"

---------------------------------------------------------------------------
(* internal/query: the result cache. *)

cacheMaxEntries == 128
cacheTTL == 1          \* one hour

\* The keys cacheKey gives, each with the files of its query.
CacheKeys == {"k1", "k2"}
KeyFileList == [k \in CacheKeys |-> IF k = "k1" THEN <<"a.go">> ELSE <<"a.go", "b.go">>]
KeyFiles == [k \in CacheKeys |-> {KeyFileList[k][i] : i \in DOMAIN KeyFileList[k]}]

NoFile == -1

\* The nil *QueryResult.
NilResult == [EmptyQueryResult EXCEPT !.Status = "nil"]

\* The result of a successful Query the caller of cachePut stores.
ResultFor(key, files) ==
    [EmptyQueryResult EXCEPT !.Status = "success", !.Mode = ModeAnswer,
                             !.Answer = "answer to " \o key,
                             !.FilesAnalyzed = files]

\* os.Stat(path) succeeds.
StatOK(path) == fsMtime[path] # NoFile

buildMtimes(files) == [f \in {g \in files : StatOK(g)} |-> fsMtime[f]]

expiredAtTTL(e) == now - e.createdAt >= cacheTTL

expired(e) == now - e.createdAt > cacheTTL

filesChanged(e) ==
    \E path \in DOMAIN e.mtimes :
        \/ ~StatOK(path)
        \/ fsMtime[path] > e.mtimes[path]

\* The map without the key k.
Delete(m, k) == [x \in DOMAIN m \ {k} |-> m[x]]

CacheIdle ==
    /\ queryCache = <<>>
    /\ cacheHits = 0
    /\ cacheMisses = 0
    /\ now = 0
    /\ fsMtime = [f \in FileNames |-> NoFile]
    /\ cgKey = ""
    /\ cgResult = NilResult
    /\ cgAliased = FALSE
    /\ lookups = 0

cacheGetKeepsStale ==
    /\ lookups < MaxLookups
    /\ \E key \in CacheKeys :
          /\ cgKey' = key
          /\ IF key \notin DOMAIN queryCache
             THEN /\ cacheMisses' = cacheMisses + 1
                  /\ cgResult' = NilResult
                  /\ cgAliased' = FALSE
                  /\ UNCHANGED <<queryCache, cacheHits>>
             ELSE IF expired(queryCache[key]) \/ filesChanged(queryCache[key])
             THEN /\ cacheMisses' = cacheMisses + 1
                  /\ cgResult' = NilResult
                  /\ cgAliased' = FALSE
                  /\ UNCHANGED <<queryCache, cacheHits>>
             ELSE /\ cacheHits' = cacheHits + 1
                  /\ cgResult' = queryCache[key].result
                  /\ cgAliased' = TRUE
                  /\ UNCHANGED <<queryCache, cacheMisses>>
    /\ lookups' = lookups + 1
    /\ UNCHANGED <<now, fsMtime>>
    /\ UNCHANGED nonCacheVars

\* cacheGet(key). The value returned on a hit is a copy of the stored
\* QueryResult struct: its string fields are the caller's own, its
\* FilesAnalyzed slice points at the array of the stored one.
cacheGet ==
    /\ lookups < MaxLookups
    /\ \E key \in CacheKeys :
          /\ cgKey' = key
          /\ IF key \notin DOMAIN queryCache
             THEN /\ cacheMisses' = cacheMisses + 1
                  /\ cgResult' = NilResult
                  /\ cgAliased' = FALSE
                  /\ UNCHANGED <<queryCache, cacheHits>>
             ELSE IF expired(queryCache[key]) \/ filesChanged(queryCache[key])
             THEN /\ queryCache' = Delete(queryCache, key)
                  /\ cacheMisses' = cacheMisses + 1
                  /\ cgResult' = NilResult
                  /\ cgAliased' = FALSE
                  /\ UNCHANGED cacheHits
             ELSE /\ cacheHits' = cacheHits + 1
                  /\ cgResult' = queryCache[key].result
                  /\ cgAliased' = TRUE
                  /\ UNCHANGED <<queryCache, cacheMisses>>
    /\ lookups' = lookups + 1
    /\ UNCHANGED <<now, fsMtime>>
    /\ UNCHANGED nonCacheVars

\* The entry cachePut stores under key.
NewEntry(key) ==
    [result |-> ResultFor(key, KeyFileList[key]),
     mtimes |-> buildMtimes(KeyFiles[key]),
     createdAt |-> now]

\* c has no entry older than the one under k.
Oldest(c, k) == \A x \in DOMAIN c : c[k].createdAt <= c[x].createdAt

cachePutEvictsAny ==
    /\ \E key \in CacheKeys :
          /\ IF Cardinality(DOMAIN queryCache) >= cacheMaxEntries
             THEN \E oldestKey \in DOMAIN queryCache :
                     queryCache' = SetKey(Delete(queryCache, oldestKey), key, NewEntry(key))
             ELSE queryCache' = SetKey(queryCache, key, NewEntry(key))
          /\ cgAliased' = (cgAliased /\ key # cgKey /\ cgKey \in DOMAIN queryCache')
    /\ UNCHANGED <<cacheHits, cacheMisses, now, fsMtime, cgKey, cgResult, lookups>>
    /\ UNCHANGED nonCacheVars

\* cachePut(key, result, buildMtimes(files)). Among entries of one creation
\* time the one the loop meets first is evicted, and the order of a map
\* range is not fixed. The entry stored is a new one: a value got earlier
\* shares nothing with it.
cachePut ==
    /\ \E key \in CacheKeys :
          /\ IF Cardinality(DOMAIN queryCache) >= cacheMaxEntries
             THEN \E oldestKey \in DOMAIN queryCache :
                     /\ Oldest(queryCache, oldestKey)
                     /\ queryCache' = SetKey(Delete(queryCache, oldestKey), key, NewEntry(key))
             ELSE queryCache' = SetKey(queryCache, key, NewEntry(key))
          /\ cgAliased' = (cgAliased /\ key # cgKey /\ cgKey \in DOMAIN queryCache')
    /\ UNCHANGED <<cacheHits, cacheMisses, now, fsMtime, cgKey, cgResult, lookups>>
    /\ UNCHANGED nonCacheVars

\* The caller of cacheGet assigns to the Answer field of the value it got.
CallerEditsAnswer ==
    /\ cgResult # NilResult
    /\ cgResult.Answer # "edited"
    /\ cgResult' = [cgResult EXCEPT !.Answer = "edited"]
    /\ UNCHANGED <<queryCache, cacheHits, cacheMisses, now, fsMtime, cgKey,
                   cgAliased, lookups>>
    /\ UNCHANGED nonCacheVars

\* The caller of cacheGet assigns to an element of the FilesAnalyzed slice of
\* the value it got: the element is written in the array the slice points at.
CallerEditsFile ==
    /\ cgResult # NilResult
    /\ \E i \in DOMAIN cgResult.FilesAnalyzed :
          /\ cgResult.FilesAnalyzed[i] # "edited.go"
          /\ cgResult' = [cgResult EXCEPT !.FilesAnalyzed[i] = "edited.go"]
          /\ IF cgAliased
             THEN queryCache' =
                      [queryCache EXCEPT ![cgKey].result.FilesAnalyzed[i] = "edited.go"]
             ELSE UNCHANGED queryCache
    /\ UNCHANGED <<cacheHits, cacheMisses, now, fsMtime, cgKey, cgAliased, lookups>>
    /\ UNCHANGED nonCacheVars

\* Time passes.
Tick ==
    /\ now < MaxTime
    /\ now' = now + 1
    /\ UNCHANGED <<queryCache, cacheHits, cacheMisses, fsMtime, cgKey, cgResult,
                   cgAliased, lookups>>
    /\ UNCHANGED nonCacheVars

\* A file is written: its modification time becomes the present.
WriteFile ==
    /\ \E f \in FileNames :
          /\ fsMtime[f] # now
          /\ fsMtime' = [fsMtime EXCEPT ![f] = now]
    /\ UNCHANGED <<queryCache, cacheHits, cacheMisses, now, cgKey, cgResult,
                   cgAliased, lookups>>
    /\ UNCHANGED nonCacheVars

\* A file is given an older modification time.
BackdateFile ==
    /\ \E f \in FileNames :
          /\ fsMtime[f] > 0
          /\ fsMtime' = [fsMtime EXCEPT ![f] = 0]
    /\ UNCHANGED <<queryCache, cacheHits, cacheMisses, now, cgKey, cgResult,
                   cgAliased, lookups>>
    /\ UNCHANGED nonCacheVars

\* A file is removed.
RemoveFile ==
    /\ \E f \in FileNames :
          /\ fsMtime[f] # NoFile
          /\ fsMtime' = [fsMtime EXCEPT ![f] = NoFile]
    /\ UNCHANGED <<queryCache, cacheHits, cacheMisses, now, cgKey, cgResult,
                   cgAliased, lookups>>
    /\ UNCHANGED nonCacheVars

---------------------------------------------------------------------------
(* internal/query: the cache called from several goroutines. Each read and  *)
(* each write of the map and of the counters is a step of its own.          *)

Goroutines == {"g1", "g2"}

CacheCalls ==
    [op : {"get", "put"}, key : CacheKeys] \cup {[op |-> "stats", key |-> ""]}

NoCall == [op |-> "", key |-> ""]

\* The locals of a call: the entry and ok of cacheGet, the counter value
\* read by an increment, oldestKey of cachePut, total and hitRate of
\* CacheStats, and what the call returned.
IdleFrame ==
    [call |-> NoCall, ok |-> FALSE, entry |-> NilResult, n |-> 0,
     oldestKey |-> "", total |-> 0, hitRate |-> 0, stats |-> "", result |-> NilResult]

\* %.0f of num/den: the nearest whole number, the even one of two.
RoundHalfEven(num, den) ==
    LET q == num \div den
        r == num % den
    IN  IF 2 * r < den THEN q
        ELSE IF 2 * r > den THEN q + 1
        ELSE IF q % 2 = 0 THEN q ELSE q + 1

LockIdle ==
    /\ cacheMu = ""
    /\ gpc = [g \in Goroutines |-> "idle"]
    /\ gframe = [g \in Goroutines |-> IdleFrame]
    /\ cache0 = <<>>

\* A goroutine calls cacheGet, cachePut or CacheStats.
CacheCall(g) ==
    /\ gpc[g] = "idle"
    /\ \E call \in CacheCalls :
          gframe' = [gframe EXCEPT ![g].call = call]
    /\ gpc' = [gpc EXCEPT ![g] = "lock"]
    /\ UNCHANGED <<queryCache, cacheHits, cacheMisses, cacheMu>>
    /\ UNCHANGED nonLockVars

\* The first statement of a call, once the mutex is taken.
FirstStep(op) ==
    IF op = "get" THEN "get_lookup"
    ELSE IF op = "put" THEN "put_len"
    ELSE "stats_total"

LockWithoutWaiting(g) ==
    /\ gpc[g] = "lock"
    /\ cacheMu' = g
    /\ gpc' = [gpc EXCEPT ![g] = FirstStep(gframe[g].call.op)]
    /\ UNCHANGED <<queryCache, cacheHits, cacheMisses, gframe>>
    /\ UNCHANGED nonLockVars

\* cacheMu.Lock(): returns once no goroutine holds the mutex.
Lock(g) ==
    /\ gpc[g] = "lock"
    /\ cacheMu = ""
    /\ cacheMu' = g
    /\ gpc' = [gpc EXCEPT ![g] = FirstStep(gframe[g].call.op)]
    /\ UNCHANGED <<queryCache, cacheHits, cacheMisses, gframe>>
    /\ UNCHANGED nonLockVars

\* The deferred cacheMu.Unlock(), run as the call returns.
Unlock(g) ==
    /\ gpc[g] = "unlock"
    /\ cacheMu' = ""
    /\ gpc' = [gpc EXCEPT ![g] = "done"]
    /\ UNCHANGED <<queryCache, cacheHits, cacheMisses, gframe>>
    /\ UNCHANGED nonLockVars

\* cacheGet: entry, ok := queryCache[key], and the tests of the entry.
GetLookup(g) ==
    /\ gpc[g] = "get_lookup"
    /\ LET key == gframe[g].call.key
       IN  IF key \notin DOMAIN queryCache
           THEN /\ gpc' = [gpc EXCEPT ![g] = "miss_load"]
                /\ UNCHANGED gframe
           ELSE /\ gframe' = [gframe EXCEPT ![g].ok = TRUE,
                                            ![g].entry = queryCache[key].result]
                /\ gpc' = [gpc EXCEPT ![g] =
                              IF expired(queryCache[key]) \/ filesChanged(queryCache[key])
                              THEN "get_delete" ELSE "hit_load"]
    /\ UNCHANGED <<queryCache, cacheHits, cacheMisses, cacheMu>>
    /\ UNCHANGED nonLockVars

\* cacheGet: delete(queryCache, key).
GetDelete(g) ==
    /\ gpc[g] = "get_delete"
    /\ queryCache' = Delete(queryCache, gframe[g].call.key)
    /\ gpc' = [gpc EXCEPT ![g] = "miss_load"]
    /\ UNCHANGED <<cacheHits, cacheMisses, cacheMu, gframe>>
    /\ UNCHANGED nonLockVars

\* cacheMisses++: the read.
MissLoad(g) ==
    /\ gpc[g] = "miss_load"
    /\ gframe' = [gframe EXCEPT ![g].n = cacheMisses]
    /\ gpc' = [gpc EXCEPT ![g] = "miss_store"]
    /\ UNCHANGED <<queryCache, cacheHits, cacheMisses, cacheMu>>
    /\ UNCHANGED nonLockVars

\* cacheMisses++: the write, and return nil.
MissStore(g) ==
    /\ gpc[g] = "miss_store"
    /\ cacheMisses' = gframe[g].n + 1
    /\ gframe' = [gframe EXCEPT ![g].result = NilResult]
    /\ gpc' = [gpc EXCEPT ![g] = "unlock"]
    /\ UNCHANGED <<queryCache, cacheHits, cacheMu>>
    /\ UNCHANGED nonLockVars

\* cacheHits++: the read.
HitLoad(g) ==
    /\ gpc[g] = "hit_load"
    /\ gframe' = [gframe EXCEPT ![g].n = cacheHits]
    /\ gpc' = [gpc EXCEPT ![g] = "hit_store"]
    /\ UNCHANGED <<queryCache, cacheHits, cacheMisses, cacheMu>>
    /\ UNCHANGED nonLockVars

\* cacheHits++: the write, and the return of the copy of entry.result.
HitStore(g) ==
    /\ gpc[g] = "hit_store"
    /\ cacheHits' = gframe[g].n + 1
    /\ gframe' = [gframe EXCEPT ![g].result = gframe[g].entry]
    /\ gpc' = [gpc EXCEPT ![g] = "unlock"]
    /\ UNCHANGED <<queryCache, cacheMisses, cacheMu>>
    /\ UNCHANGED nonLockVars

\* The test of the length with > for >=.
PutLenAboveCapacity(g) ==
    /\ gpc[g] = "put_len"
    /\ gpc' = [gpc EXCEPT ![g] =
                  IF Cardinality(DOMAIN queryCache) > cacheMaxEntries
                  THEN "put_scan" ELSE "put_store"]
    /\ UNCHANGED <<queryCache, cacheHits, cacheMisses, cacheMu, gframe>>
    /\ UNCHANGED nonLockVars

\* cachePut: len(queryCache) >= cacheMaxEntries.
PutLen(g) ==
    /\ gpc[g] = "put_len"
    /\ gpc' = [gpc EXCEPT ![g] =
                  IF Cardinality(DOMAIN queryCache) >= cacheMaxEntries
                  THEN "put_scan" ELSE "put_store"]
    /\ UNCHANGED <<queryCache, cacheHits, cacheMisses, cacheMu, gframe>>
    /\ UNCHANGED nonLockVars

\* cachePut: the loop that finds oldestKey. Over an empty map it leaves "".
PutScan(g) ==
    /\ gpc[g] = "put_scan"
    /\ IF queryCache = <<>>
       THEN gframe' = [gframe EXCEPT ![g].oldestKey = ""]
       ELSE \E oldestKey \in DOMAIN queryCache :
               /\ Oldest(queryCache, oldestKey)
               /\ gframe' = [gframe EXCEPT ![g].oldestKey = oldestKey]
    /\ gpc' = [gpc EXCEPT ![g] = "put_delete"]
    /\ UNCHANGED <<queryCache, cacheHits, cacheMisses, cacheMu>>
    /\ UNCHANGED nonLockVars

\* cachePut: delete(queryCache, oldestKey).
PutDelete(g) ==
    /\ gpc[g] = "put_delete"
    /\ queryCache' = Delete(queryCache, gframe[g].oldestKey)
    /\ gpc' = [gpc EXCEPT ![g] = "put_store"]
    /\ UNCHANGED <<cacheHits, cacheMisses, cacheMu, gframe>>
    /\ UNCHANGED nonLockVars

\* cachePut: queryCache[key] = &cacheEntry{...}.
PutStore(g) ==
    /\ gpc[g] = "put_store"
    /\ queryCache' = SetKey(queryCache, gframe[g].call.key, NewEntry(gframe[g].call.key))
    /\ gpc' = [gpc EXCEPT ![g] = "unlock"]
    /\ UNCHANGED <<cacheHits, cacheMisses, cacheMu, gframe>>
    /\ UNCHANGED nonLockVars

\* CacheStats: total := cacheHits + cacheMisses, and the return if it is 0.
StatsTotal(g) ==
    /\ gpc[g] = "stats_total"
    /\ LET total == cacheHits + cacheMisses
       IN  IF total = 0
           THEN /\ gframe' = [gframe EXCEPT ![g].total = total,
                                            ![g].stats = "cache: 0 queries"]
                /\ gpc' = [gpc EXCEPT ![g] = "unlock"]
           ELSE /\ gframe' = [gframe EXCEPT ![g].total = total]
                /\ gpc' = [gpc EXCEPT ![g] = "stats_rate"]
    /\ UNCHANGED <<queryCache, cacheHits, cacheMisses, cacheMu>>
    /\ UNCHANGED nonLockVars

\* The text CacheStats formats.
StatsText(entries, hits, misses, hitRate) ==
    "cache: " \o ToString(entries) \o " entries, " \o ToString(hits) \o " hits, "
        \o ToString(misses) \o " misses (" \o ToString(hitRate) \o "% hit rate)"

\* CacheStats: hitRate := cacheHits / total * 100, kept as the whole number
\* the format prints.
StatsRate(g) ==
    /\ gpc[g] = "stats_rate"
    /\ gframe' = [gframe EXCEPT ![g].hitRate =
                      RoundHalfEven(cacheHits * 100, gframe[g].total)]
    /\ gpc' = [gpc EXCEPT ![g] = "stats_format"]
    /\ UNCHANGED <<queryCache, cacheHits, cacheMisses, cacheMu>>
    /\ UNCHANGED nonLockVars

\* CacheStats: the formatted return.
StatsFormat(g) ==
    /\ gpc[g] = "stats_format"
    /\ gframe' = [gframe EXCEPT ![g].stats =
                      StatsText(Cardinality(DOMAIN queryCache), cacheHits, cacheMisses,
                                gframe[g].hitRate)]
    /\ gpc' = [gpc EXCEPT ![g] = "unlock"]
    /\ UNCHANGED <<queryCache, cacheHits, cacheMisses, cacheMu>>
    /\ UNCHANGED nonLockVars

---------------------------------------------------------------------------
(* internal/query: the cache key. *)

\* The order sort.Strings puts the file names in.
StringRank == [f \in FileNames |-> IF f = "a.go" THEN 1 ELSE 2]

RECURSIVE InsertString(_, _)
InsertString(x, sorted) ==
    IF sorted = <<>> THEN <<x>>
    ELSE IF StringRank[x] <= StringRank[Head(sorted)] THEN <<x>> \o sorted
    ELSE <<Head(sorted)>> \o InsertString(x, Tail(sorted))

RECURSIVE SortStrings(_)
SortStrings(s) ==
    IF s = <<>> THEN <<>> ELSE InsertString(Head(s), SortStrings(Tail(s)))

\* The text written to the hash: the lines q:, m: and one f: for each file.
KeyText(question, files, mode) ==
    "q:" \o Str(question) \o "\n" \o "m:" \o mode \o "\n"
        \o Str([i \in DOMAIN files |-> "f:" \o files[i] \o "\n"])

cacheKeyInOrderGiven(question, files, mode) ==
    [key |-> KeyText(question, files, mode), files |-> files]

\* cacheKey(question, files, mode): the key, and the caller's slice as the
\* call leaves it. The key is the first 16 hex digits of the SHA-256 of the
\* text; the text stands for it here, the digest being taken to tell the
\* texts of the model apart.
cacheKey(question, files, mode) ==
    LET sorted == SortStrings(files)
    IN  [key |-> KeyText(question, sorted, mode), files |-> files]

KeyIdle == ckCalls = <<>>

\* A call of cacheKey, in whatever state the files are; two are compared.
cacheKeyCall ==
    /\ Len(ckCalls) < 2
    /\ \E question \in QuestionChoices \ {<<" ", "\t">>} :
       \E files \in FileChoices :
       \E mode \in {ModeAnswer, ModeSummarize} :
          LET out == cacheKey(question, files, mode)
          IN  ckCalls' = Append(ckCalls,
                               [question |-> question, mode |-> mode,
                                given |-> files, files |-> out.files,
                                key |-> out.key, mtimes |-> fsMtime])
    /\ UNCHANGED nonKeyVars

---------------------------------------------------------------------------
(* hooks/pre-read-intercept.sh: the hook run before a file is read. *)

HookThreshold == 200

ProjectDir == <<"/", "p">>
TmpDir == <<"/", "tmp", "/">>

\* The paths asked for, each a string cut in pieces.
HookPaths ==
    {ProjectDir \o <<"/", "big", ".go">>,
     ProjectDir \o <<"/", "edge", ".go">>,
     ProjectDir \o <<"/", "small", ".go">>,
     ProjectDir \o <<"/", "doc", ".md">>,
     ProjectDir \o <<"/", "gone", ".go">>,
     TmpDir \o <<"big", ".go">>}

AllowedExtensions ==
    {".md", ".json", ".yaml", ".yml", ".toml", ".txt", ".csv", ".xml", ".html",
     ".css", ".svg", ".lock", ".cfg", ".ini", ".conf", ".env", ".pdf", ".png",
     ".jpg", ".gif", ".ico"}

\* What wc -l prints for the file at a path, NoFile if there is none.
WcLines(path) ==
    IF "gone" \in {path[i] : i \in DOMAIN path} THEN NoFile
    ELSE IF "small" \in {path[i] : i \in DOMAIN path} THEN HookThreshold - 1
    ELSE IF "edge" \in {path[i] : i \in DOMAIN path} THEN HookThreshold
    ELSE HookThreshold + 100

SessionIDs == {"", "s1", "s2"}

\* The payloads: a file_path or none, an offset or none, a session_id or
\* none. An empty input reads as the payload with none of them.
HookPayloads ==
    [file_path : HookPaths \cup {<<>>}, offset : {"", "50"}, session_id : SessionIDs]

NoOutput == [decision |-> "", reason |-> ""]

\* The JSON the hook writes when it denies.
BlockDecision(file_path, line_count) ==
    LET rel_path == IF HasPrefix(file_path, ProjectDir \o <<"/">>)
                    THEN TrimPrefix(file_path, ProjectDir \o <<"/">>)
                    ELSE file_path
    IN  [decision |-> "block",
         reason |-> "INTERSERVE: " \o Str(rel_path) \o " is " \o ToString(line_count)
                    \o " lines. Use codex_query(question='...', files=['"
                    \o Str(file_path) \o "']) to save ~" \o ToString(line_count)
                    \o " tokens. Modes: answer (default), summarize, extract."]

\* The tests of lines 13-47 without the one of the offset.
PassesThroughIgnoresOffset(payload) ==
    \/ ~hFlag
    \/ ~hJq
    \/ payload.file_path = <<>>
    \/ HasPrefix(payload.file_path, TmpDir)
    \/ payload.file_path[Len(payload.file_path)] \in AllowedExtensions
    \/ WcLines(payload.file_path) = NoFile
    \/ WcLines(payload.file_path) < HookThreshold

\* The tests of lines 13-47 let the read through.
PassesThrough(payload) ==
    \/ ~hFlag
    \/ ~hJq
    \/ payload.file_path = <<>>
    \/ payload.offset # ""
    \/ HasPrefix(payload.file_path, TmpDir)
    \/ payload.file_path[Len(payload.file_path)] \in AllowedExtensions
    \/ WcLines(payload.file_path) = NoFile
    \/ WcLines(payload.file_path) < HookThreshold

\* The marker file of a session and a path; the MD5 of the path stands in
\* its name, the path here.
MarkerOf(payload) == <<payload.session_id, payload.file_path>>

HookIdle ==
    /\ hFlag = FALSE
    /\ hJq = FALSE
    /\ hTmpWritable = FALSE
    /\ hMarkers = {}
    /\ hPayload = [file_path |-> <<>>, offset |-> "", session_id |-> ""]
    /\ hOut = NoOutput
    /\ hDenials = [m \in SessionIDs \X HookPaths |-> 0]
    /\ hReads = 0
    /\ hExit = -1

\* One run of the hook: main, then lines 71-72, which end the script with
\* the status 0 whatever main did.
PreReadIntercept ==
    /\ hReads < MaxReads
    /\ \E payload \in HookPayloads :
          /\ hPayload' = payload
          /\ IF PassesThrough(payload)
             THEN /\ hOut' = NoOutput
                  /\ UNCHANGED <<hMarkers, hDenials>>
             ELSE IF payload.session_id # "" /\ MarkerOf(payload) \in hMarkers
             THEN /\ hOut' = NoOutput
                  /\ UNCHANGED <<hMarkers, hDenials>>
             ELSE /\ hMarkers' = IF payload.session_id # "" /\ hTmpWritable
                                 THEN hMarkers \cup {MarkerOf(payload)}
                                 ELSE hMarkers
                  /\ hOut' = BlockDecision(payload.file_path, WcLines(payload.file_path))
                  /\ hDenials' = [hDenials EXCEPT ![MarkerOf(payload)] = @ + 1]
    /\ hReads' = hReads + 1
    /\ hExit' = 0
    /\ UNCHANGED <<hFlag, hJq, hTmpWritable>>
    /\ UNCHANGED nonHookVars

InitExtract ==
    /\ doc \in Docs
    /\ ExtractIdle
    /\ KeyIdle
    /\ LockIdle
    /\ HookIdle
    /\ CacheIdle
    /\ ClassifyIdle
    /\ PreviewIdle
    /\ StripIdle
    /\ QueryIdle

NextExtract ==
    \/ ExtractStart
    \/ ScanHeading
    \/ ScanBody
    \/ ExtractReturn

SpecExtract == InitExtract /\ [][NextExtract]_vars

InitClassify ==
    /\ doc = << <<>> >>
    /\ ExtractIdle
    /\ KeyIdle
    /\ LockIdle
    /\ HookIdle
    /\ CacheIdle
    /\ clSections \in SectionChoices
    /\ agents \in AgentChoices
    /\ ClassifyEntry
    /\ cpc = "start"
    /\ PreviewIdle
    /\ StripIdle
    /\ QueryIdle

NextClassify ==
    \/ ClassifyCancel
    \/ ClassifyNoSections
    \/ ClassifyTempFileError
    \/ ClassifyDispatch
    \/ DispatchFailed
    \/ DispatchReadError
    \/ DispatchEmptyOutput
    \/ DispatchInvalidJSON
    \/ DispatchClassified

SpecClassify == InitClassify /\ [][NextClassify]_vars

\* Classify on the documents of ShareSectionChoices.
InitShares ==
    /\ doc = << <<>> >>
    /\ ExtractIdle
    /\ KeyIdle
    /\ LockIdle
    /\ HookIdle
    /\ CacheIdle
    /\ clSections \in ShareSectionChoices
    /\ agents \in AgentChoices
    /\ ClassifyEntry
    /\ cpc = "start"
    /\ PreviewIdle
    /\ StripIdle
    /\ QueryIdle

NextShares ==
    \/ ClassifyCancel
    \/ ClassifyNoSections
    \/ ClassifyTempFileError
    \/ ClassifyDispatch
    \/ DispatchFailed
    \/ DispatchReadError
    \/ DispatchEmptyOutput
    \/ DispatchInvalidJSON
    \/ DispatchClassified

SpecShares == InitShares /\ [][NextShares]_vars

InitPreview ==
    /\ doc = << <<>> >>
    /\ ExtractIdle
    /\ KeyIdle
    /\ LockIdle
    /\ HookIdle
    /\ CacheIdle
    /\ ClassifyIdle
    /\ \E pattern \in BodyPatterns, n \in 0..MaxBodyLines :
          /\ pvLines = BodyLinesOf(pattern, n)
          /\ pvBody = Join(BodyLinesOf(pattern, n), <<"\n">>)
    /\ pvOut = <<>>
    /\ ppc = "start"
    /\ StripIdle
    /\ QueryIdle

NextPreview == PreviewCall

SpecPreview == InitPreview /\ [][NextPreview]_vars

InitStrip ==
    /\ doc = << <<>> >>
    /\ ExtractIdle
    /\ KeyIdle
    /\ LockIdle
    /\ HookIdle
    /\ CacheIdle
    /\ ClassifyIdle
    /\ PreviewIdle
    /\ stRaw \in Payloads
    /\ stOut = <<>>
    /\ spc = "start"
    /\ QueryIdle

NextStrip == StripCall

SpecStrip == InitStrip /\ [][NextStrip]_vars

\* One call: of Classify, with one section at most, or of Query.
InitDispatch ==
    /\ doc = << <<>> >>
    /\ ExtractIdle
    /\ KeyIdle
    /\ LockIdle
    /\ HookIdle
    /\ CacheIdle
    /\ PreviewIdle
    /\ StripIdle
    /\ \/ /\ clSections \in {c \in SectionChoices : Len(c) <= 1}
          /\ agents \in AgentChoices
          /\ ClassifyEntry
          /\ cpc = "start"
          /\ QueryIdle
       \/ /\ ClassifyNotCalled
          /\ qQuestion \in QuestionChoices
          /\ qFiles \in FileChoices
          /\ qMode \in ModeChoices
          /\ qFS \in [FileNames -> FileStates]
          /\ qResult = EmptyQueryResult
          /\ qExitPath = "none"
          /\ qOracleStarts = 0
          /\ qTempMade = {}
          /\ qTempLive = {}
          /\ qCancelled = FALSE
          /\ qpc = "start"
          /\ qPrior = <<>>

NextQuery ==
    \/ QueryCancel
    \/ QueryInvalidMode
    \/ QueryNoQuestion
    \/ QueryNoFiles
    \/ QueryFileError
    \/ QueryTempFileError
    \/ QueryDispatch
    \/ QueryDispatchFailed
    \/ QueryReadError
    \/ QueryEmptyOutput
    \/ QueryAnswered

NextDispatch == NextClassify \/ NextQuery

SpecDispatch == InitDispatch /\ [][NextDispatch]_vars

\* A call that has begun runs on until it returns: the goroutine of the
\* call is scheduled, and the process of a cancelled context is killed.
SpecDispatchLive == SpecDispatch /\ WF_vars(NextDispatch)

InitCache ==
    /\ doc = << <<>> >>
    /\ ExtractIdle
    /\ KeyIdle
    /\ LockIdle
    /\ HookIdle
    /\ ClassifyIdle
    /\ PreviewIdle
    /\ StripIdle
    /\ QueryIdle
    /\ queryCache = <<>>
    /\ cacheHits = 0
    /\ cacheMisses = 0
    /\ now = 0
    /\ fsMtime \in [FileNames -> {NoFile, 0}]
    /\ cgKey = ""
    /\ cgResult = NilResult
    /\ cgAliased = FALSE
    /\ lookups = 0

NextCache ==
    \/ cacheGet
    \/ cachePut
    \/ Tick
    \/ WriteFile
    \/ BackdateFile
    \/ RemoveFile

SpecCache == InitCache /\ [][NextCache]_vars

\* The cache with the files in place, and a caller that writes to the
\* values it got.
InitCopy ==
    /\ doc = << <<>> >>
    /\ ExtractIdle
    /\ KeyIdle
    /\ LockIdle
    /\ HookIdle
    /\ ClassifyIdle
    /\ PreviewIdle
    /\ StripIdle
    /\ QueryIdle
    /\ queryCache = <<>>
    /\ cacheHits = 0
    /\ cacheMisses = 0
    /\ now = 0
    /\ fsMtime = [f \in FileNames |-> 0]
    /\ cgKey = ""
    /\ cgResult = NilResult
    /\ cgAliased = FALSE
    /\ lookups = 0

NextCopy ==
    \/ cacheGet
    \/ cachePut
    \/ CallerEditsAnswer
    \/ CallerEditsFile

SpecCopy == InitCopy /\ [][NextCopy]_vars

\* The keys of n earlier queries.
FillKeys(n) == {"e" \o ToString(i) : i \in 1..n}

\* The positions the oldest entry of a filled cache is tried at.
OldestChoices(n) == {1, n \div 2, n}

\* A cache that n earlier calls of cachePut have filled, one each hour
\* up to the present: the entry of the query numbered j is the oldest and
\* the ones after it, going round, are each an hour younger; with tie the
\* two oldest were stored within one tick. Entries past the time-to-live
\* stay until they are looked up. withKey puts the query of key k1 in the
\* place of the one numbered n.
FilledCache(n, j, tie, withKey) ==
    LET age(i) == LET a == n - ((i - j) % n)
                  IN  IF tie /\ a = n - 1 THEN n ELSE a
        fill == [k \in FillKeys(n) |->
                    LET i == CHOOSE x \in 1..n : k = "e" \o ToString(x)
                    IN  [result |-> ResultFor(k, <<"a.go">>),
                         mtimes |-> <<>>,
                         createdAt |-> 1 - age(i)]]
    IN  IF withKey
        THEN SetKey(Delete(fill, "e" \o ToString(n)), "k1",
                    [result |-> ResultFor("k1", KeyFileList["k1"]),
                     mtimes |-> <<>>,
                     createdAt |-> 1 - age(n)])
        ELSE fill

\* The cache at its capacity, or one entry below it.
InitEvict ==
    /\ doc = << <<>> >>
    /\ ExtractIdle
    /\ KeyIdle
    /\ LockIdle
    /\ HookIdle
    /\ ClassifyIdle
    /\ PreviewIdle
    /\ StripIdle
    /\ QueryIdle
    /\ \E n \in {cacheMaxEntries - 1, cacheMaxEntries} :
       \E j \in OldestChoices(n) :
       \E tie \in BOOLEAN :
       \E withKey \in BOOLEAN :
          queryCache = FilledCache(n, j, tie, withKey)
    /\ cacheHits = 0
    /\ cacheMisses = 0
    /\ now = 1
    /\ fsMtime = [f \in FileNames |-> NoFile]
    /\ cgKey = ""
    /\ cgResult = NilResult
    /\ cgAliased = FALSE
    /\ lookups = 0

NextEvict ==
    \/ cachePut
    \/ Tick

SpecEvict == InitEvict /\ [][NextEvict]_vars

\* A call of Query and a second one with the same arguments.
InitRepeat ==
    /\ doc = << <<>> >>
    /\ ExtractIdle
    /\ KeyIdle
    /\ LockIdle
    /\ HookIdle
    /\ CacheIdle
    /\ PreviewIdle
    /\ StripIdle
    /\ ClassifyNotCalled
    /\ qQuestion \in QuestionChoices
    /\ qFiles \in FileChoices
    /\ qMode \in ModeChoices
    /\ qFS \in [FileNames -> FileStates]
    /\ qResult = EmptyQueryResult
    /\ qExitPath = "none"
    /\ qOracleStarts = 0
    /\ qTempMade = {}
    /\ qTempLive = {}
    /\ qCancelled = FALSE
    /\ qpc = "start"
    /\ qPrior = <<>>

NextRepeat == NextQuery \/ QueryAgain

SpecRepeat == InitRepeat /\ [][NextRepeat]_vars

\* Two goroutines call the cache at once: an empty cache, one with an entry
\* that is fresh or past its time-to-live, or a full one.
InitLock ==
    /\ doc = << <<>> >>
    /\ ExtractIdle
    /\ KeyIdle
    /\ HookIdle
    /\ ClassifyIdle
    /\ PreviewIdle
    /\ StripIdle
    /\ QueryIdle
    /\ now \in {1, MaxTime}
    /\ fsMtime = [f \in FileNames |-> 0]
    /\ queryCache \in
          {<<>>,
           [k \in {"k1"} |-> [result |-> ResultFor(k, KeyFileList[k]),
                              mtimes |-> [f \in KeyFiles[k] |-> 0],
                              createdAt |-> 0]],
           FilledCache(cacheMaxEntries, 1, FALSE, TRUE)}
    /\ cache0 = queryCache
    /\ cacheHits = 0
    /\ cacheMisses = 0
    /\ cgKey = ""
    /\ cgResult = NilResult
    /\ cgAliased = FALSE
    /\ lookups = 0
    /\ cacheMu = ""
    /\ gpc = [g \in Goroutines |-> "idle"]
    /\ gframe = [g \in Goroutines |-> IdleFrame]

NextLock ==
    \E g \in Goroutines :
        \/ CacheCall(g)
        \/ Lock(g)
        \/ Unlock(g)
        \/ GetLookup(g)
        \/ GetDelete(g)
        \/ MissLoad(g)
        \/ MissStore(g)
        \/ HitLoad(g)
        \/ HitStore(g)
        \/ PutLen(g)
        \/ PutScan(g)
        \/ PutDelete(g)
        \/ PutStore(g)
        \/ StatsTotal(g)
        \/ StatsRate(g)
        \/ StatsFormat(g)

SpecLock == InitLock /\ [][NextLock]_vars

\* Calls of cacheKey while the files change.
InitKey ==
    /\ doc = << <<>> >>
    /\ ExtractIdle
    /\ KeyIdle
    /\ LockIdle
    /\ HookIdle
    /\ ClassifyIdle
    /\ PreviewIdle
    /\ StripIdle
    /\ QueryIdle
    /\ CacheIdle

NextKey ==
    \/ cacheKeyCall
    \/ WriteFile

SpecKey == InitKey /\ [][NextKey]_vars

\* Runs of the hook in one environment.
InitHook ==
    /\ doc = << <<>> >>
    /\ ExtractIdle
    /\ KeyIdle
    /\ LockIdle
    /\ ClassifyIdle
    /\ PreviewIdle
    /\ StripIdle
    /\ QueryIdle
    /\ CacheIdle
    /\ hFlag \in BOOLEAN
    /\ hJq \in BOOLEAN
    /\ hTmpWritable \in BOOLEAN
    /\ hMarkers = {}
    /\ hPayload = [file_path |-> <<>>, offset |-> "", session_id |-> ""]
    /\ hOut = NoOutput
    /\ hDenials = [m \in SessionIDs \X HookPaths |-> 0]
    /\ hReads = 0
    /\ hExit = -1

NextHook == PreReadIntercept

SpecHook == InitHook /\ [][NextHook]_vars

---------------------------------------------------------------------------
(* What the extractor is to compute, stated over the document alone. *)

\* The fence family a line is a marker of: its trimmed text starts with three
\* backticks or with three tildes.
FenceFamily(line) ==
    LET t == TrimSpace(line)
    IN  IF Len(t) >= 3 /\ \A k \in 1..3 : t[k] = BT THEN "backtick"
        ELSE IF Len(t) >= 3 /\ \A k \in 1..3 : t[k] = "~" THEN "tilde"
        ELSE "none"

\* Line i of ls lies inside a fence: a marker before it opened a fence (it was
\* itself outside any fence) and no marker of that family stands in between.
RECURSIVE InsideFence(_, _)
InsideFence(ls, i) ==
    \E j \in 1..(i - 1) :
        /\ FenceFamily(ls[j]) # "none"
        /\ ~InsideFence(ls, j)
        /\ \A k \in (j + 1)..(i - 1) : FenceFamily(ls[k]) # FenceFamily(ls[j])

\* A top-level heading line: left-trimmed, it starts with "## ".
HeadingLike(line) ==
    LET t == TrimLeft(line, {" ", "\t"})
    IN  Len(t) >= 3 /\ t[1] = "#" /\ t[2] = "#" /\ t[3] = " "

HeadingsOutsideFences(ls) ==
    {i \in 1..Len(ls) : HeadingLike(ls[i]) /\ ~InsideFence(ls, i)}

\* The lines before the first heading outside fences hold a non-blank character.
PreambleHasText(ls) ==
    \E i \in 1..Len(ls) :
        /\ \A h \in HeadingsOutsideFences(ls) : i < h
        /\ \E k \in 1..Len(ls[i]) : ls[i][k] \notin WhiteSpace

ExpectedCount(ls) ==
    Cardinality(HeadingsOutsideFences(ls)) + (IF PreambleHasText(ls) THEN 1 ELSE 0)

\* The leading metadata block of a document.
MetadataOpen(d) == TrimSpace(d[1]) = FrontmatterToken
MetadataClosers(d) == {i \in 2..Len(d) : TrimSpace(d[i]) = FrontmatterToken}
DocLines(d) == IF d = << <<>> >> THEN <<>> ELSE d
AfterMetadata(d) ==
    IF ~MetadataOpen(d) THEN DocLines(d)
    ELSE IF MetadataClosers(d) = {} THEN <<>>
    ELSE LET c == CHOOSE i \in MetadataClosers(d) :
                      \A j \in MetadataClosers(d) : i <= j
         IN  SubSeq(d, c + 1, Len(d))

---------------------------------------------------------------------------
(* Claims about ExtractSections, checked under SpecExtract. *)

\* C7 (as stated): for any document, the number of sections returned equals
\* the number of top-level heading lines of the document outside fences, plus
\* one if and only if the leading preamble text is non-whitespace.
C7_CountOverWholeDocument ==
    xpc = "done" => Len(sections) = ExpectedCount(DocLines(doc))

\* C7 (amended): the number of sections returned equals the number of
\* top-level heading lines outside fences among the lines that remain after
\* the leading metadata block is removed (none remain when the block is not
\* closed), plus one if and only if the preamble text among those lines is
\* non-whitespace.
C7_CountAfterMetadata ==
    xpc = "done" => Len(sections) = ExpectedCount(AfterMetadata(doc))

\* C7 witness: a returned extraction with a metadata block, a suppressed blank
\* preamble and a heading.
C7_Witness ==
    /\ xpc = "done"
    /\ MetadataOpen(doc)
    /\ Len(AfterMetadata(doc)) >= 2
    /\ ~PreambleHasText(AfterMetadata(doc))
    /\ 1 \notin HeadingsOutsideFences(AfterMetadata(doc))
    /\ Len(sections) >= 1

\* C8: a line inside a fence of either family, closed later or never closed,
\* starts no section: the loop appends it to the body of the section that is
\* open and leaves the emitted sections and the current heading alone.
C8_FencedLinesStayInBody ==
    [][(xpc = "scan" /\ pos <= Len(lines) /\ InsideFence(lines, pos))
         => /\ sections' = sections
            /\ currentHeading' = currentHeading
            /\ currentBody' = Append(currentBody, lines[pos])
            /\ xpc' = "scan"]_vars

\* C8 witness: a heading-like line inside a tilde fence has been read, and so
\* has the marker that closes the fence.
C8_Witness ==
    /\ xpc = "done"
    /\ \E i \in 1..Len(lines) :
          /\ HeadingLike(lines[i])
          /\ InsideFence(lines, i)
          /\ \E j \in 1..(i - 1) : FenceFamily(lines[j]) = "tilde"
          /\ \E k \in (i + 1)..Len(lines) : FenceFamily(lines[k]) = "tilde"
    /\ Len(sections) = 1

\* C9: with a first line that is "---" and a later "---" line, the lines the
\* extractor scans are those after the first closing line; with no closing
\* line no section is returned; with another first line every line is scanned.
C9_MetadataBlock ==
    /\ xpc # "start" =>
          IF MetadataOpen(doc) /\ MetadataClosers(doc) # {}
          THEN \E c \in MetadataClosers(doc) :
                  /\ \A j \in MetadataClosers(doc) : c <= j
                  /\ lines = SubSeq(doc, c + 1, Len(doc))
          ELSE IF MetadataOpen(doc) THEN lines = <<>>
          ELSE lines = DocLines(doc)
    /\ (xpc = "done" /\ MetadataOpen(doc) /\ MetadataClosers(doc) = {})
          => sections = <<>>

\* C9 witness: a closed metadata block with a heading behind it.
C9_Witness ==
    /\ xpc = "done"
    /\ MetadataOpen(doc)
    /\ MetadataClosers(doc) # {}
    /\ Len(lines) >= 1
    /\ Len(sections) >= 1

\* C10: the sections carry the ids 1, 2, ..., n in order.
C10_SequentialIDs ==
    \A k \in 1..Len(sections) : sections[k].ID = k

\* C10 witness: two sections returned after a blank preamble was suppressed.
C10_Witness ==
    /\ xpc = "done"
    /\ Len(sections) = 2
    /\ Len(lines) >= 3
    /\ ~HeadingLike(lines[1])
    /\ ~PreambleHasText(lines)

\* The section in progress, as a record.
InProgress ==
    [ID |-> nextID, Heading |-> currentHeading,
     Body |-> Join(currentBody, <<"\n">>), LineCount |-> Len(currentBody)]

\* C11 (as stated): at the end of input the section in progress is emitted
\* whatever it holds.
C11_FinalEmitUnconditional ==
    [][(xpc = "scan" /\ xpc' = "done")
         => sections' = Append(sections, InProgress)]_vars

\* C11 (amended): at the end of input the section in progress is emitted,
\* even with an empty body, once a heading has been seen; with no heading
\* seen it is the preamble, emitted only if its text is non-whitespace.  A
\* section with no line between two consecutive headings is kept, with line
\* count 0.
C11_FinalEmitAfterHeading ==
    [][/\ (xpc = "scan" /\ xpc' = "done") =>
            IF hasSeenHeading \/ PreambleHasText(currentBody)
            THEN sections' = Append(sections, InProgress)
            ELSE sections' = sections
       /\ (xpc = "scan" /\ pos <= Len(lines) /\ hasSeenHeading
              /\ currentBody = <<>> /\ HeadingLike(lines[pos]) /\ ~inFence) =>
            /\ sections' = Append(sections, InProgress)
            /\ sections'[Len(sections')].LineCount = 0]_vars

\* C11 witness: the input ends on two consecutive headings; both sections
\* are returned with line count 0.
C11_Witness ==
    /\ xpc = "done"
    /\ Len(lines) >= 2
    /\ HeadingLike(lines[Len(lines)])
    /\ HeadingLike(lines[Len(lines) - 1])
    /\ Len(sections) >= 2
    /\ sections[Len(sections)].LineCount = 0
    /\ sections[Len(sections) - 1].LineCount = 0


\* The family of the fence that is open before line i of ls is read, "none"
\* if no fence is: the family of the last marker before i that stood outside
\* any fence, unless a marker of that family followed it.
OpenFamily(ls, i) ==
    IF ~InsideFence(ls, i) THEN "none"
    ELSE LET j == CHOOSE o \in 1..(i - 1) :
                     /\ FenceFamily(ls[o]) # "none"
                     /\ ~InsideFence(ls, o)
                     /\ \A k \in (o + 1)..(i - 1) : FenceFamily(ls[k]) # FenceFamily(ls[o])
         IN  FenceFamily(ls[j])

\* C30: while a fence of one family is open, a marker line of the other
\* family leaves it open, and a heading-like line read while it is open
\* starts no section; a marker of the opening family closes it.
C30_FamiliesIndependent ==
    [][(xpc = "scan" /\ pos <= Len(lines) /\ OpenFamily(lines, pos) # "none") =>
          /\ inFence
          /\ sections' = sections
          /\ currentHeading' = currentHeading
          /\ IF FenceFamily(lines[pos]) = OpenFamily(lines, pos)
             THEN ~inFence'
             ELSE inFence' /\ fence' = fence]_vars

\* C30 witness: a backtick fence was opened, a tilde marker and then a
\* heading-like line were read inside it, and one section was returned.
C30_Witness ==
    /\ xpc = "done"
    /\ Len(lines) >= 3
    /\ FenceFamily(lines[1]) = "backtick"
    /\ FenceFamily(lines[2]) = "tilde"
    /\ HeadingLike(lines[3])
    /\ Len(sections) = 1
    /\ sections[1].LineCount = Len(lines)

---------------------------------------------------------------------------
(* Claims about Section.Preview, checked under SpecPreview. *)

\* The number of lines of the body: none for the empty string, else one more
\* than its line breaks.
BodyLineCount == IF pvBody = <<>> THEN 0 ELSE Len(pvLines)

MarkersIn(s) == Cardinality({k \in 1..Len(s) : s[k] = " lines omitted ...]"})

\* C12: on a body of n lines Preview returns, for n <= 100, the first
\* min(50, n) lines and no omission marker; for n > 100 the first 25 lines,
\* one omission marker reporting n - 50 omitted lines, and the last 25 lines.
C12_Preview ==
    ppc = "done" =>
        LET n == BodyLineCount
        IN  IF n <= 100
            THEN /\ pvOut = Join(SubSeq(pvLines, 1, IF n < 50 THEN n ELSE 50), <<"\n">>)
                 /\ MarkersIn(pvOut) = 0
            ELSE /\ pvOut = Join(SubSeq(pvLines, 1, 25)
                                   \o << <<"[... ", ToString(n - 50), " lines omitted ...]">> >>
                                   \o SubSeq(pvLines, n - 24, n), <<"\n">>)
                 /\ MarkersIn(pvOut) = 1

\* C12 witness: a body of 101 numbered lines has been previewed, with one
\* marker reporting 51 omitted lines.
C12_Witness ==
    /\ ppc = "done"
    /\ BodyLineCount = 101
    /\ pvLines[1] # <<>>
    /\ \E k \in 1..(Len(pvOut) - 2) :
          pvOut[k] = "[... " /\ pvOut[k + 1] = "51" /\ pvOut[k + 2] = " lines omitted ...]"

---------------------------------------------------------------------------
(* Claims about stripCodeFences, checked under SpecStrip. *)

\* The lines of the trimmed oracle output.
TrimmedLines == Split(TrimSpace(stRaw), "\n")

StartsWithRun(line, ch) ==
    LET t == TrimSpace(line) IN Len(t) >= 3 /\ \A k \in 1..3 : t[k] = ch

\* The output is wrapped in a fence of the family of ch: its first line and
\* its last line both start with three of ch.
WrappedIn(ch) ==
    /\ Len(TrimmedLines) >= 2
    /\ StartsWithRun(TrimmedLines[1], ch)
    /\ StartsWithRun(TrimmedLines[Len(TrimmedLines)], ch)

\* The text between the first and the last line, trimmed.
InnerText ==
    TrimSpace(Join(SubSeq(TrimmedLines, 2, Len(TrimmedLines) - 1), <<"\n">>))

\* The text after the first line, trimmed.
TextAfterOpening ==
    TrimSpace(Join(SubSeq(TrimmedLines, 2, Len(TrimmedLines)), <<"\n">>))

\* C17 (as stated): an output wrapped in a fence of backticks or of tildes
\* is returned without the fence, trailing blank lines trimmed.
C17_StripsBothFamilies ==
    (spc = "done" /\ (WrappedIn(BT) \/ WrappedIn("~"))) => stOut = InnerText

\* C17 (amended): an output wrapped in a fence of three or more backticks is
\* returned without the fence, trailing blank lines trimmed; an output that
\* does not start with three backticks (one wrapped in tildes included) is
\* returned trimmed and otherwise unchanged; with an opening backtick line
\* and no closing one only the opening line is removed.
C17_StripsBacktickFence ==
    spc = "done" =>
        IF WrappedIn(BT) THEN stOut = InnerText
        ELSE IF StartsWithRun(TrimmedLines[1], BT) THEN stOut = TextAfterOpening
        ELSE stOut = TrimSpace(stRaw)

\* C17 witness: an output wrapped in a backtick fence with a language tag and
\* a blank line before the closing marker has been stripped to its text.
C17_Witness ==
    /\ spc = "done"
    /\ WrappedIn(BT)
    /\ Len(TrimmedLines) = 4
    /\ TrimmedLines[1] = <<BT, BT, BT, "json">>
    /\ TrimSpace(TrimmedLines[3]) = <<>>
    /\ stOut = <<"{}">>

---------------------------------------------------------------------------
(* Claims about one call of Classify or of Query, checked under             *)
(* SpecDispatch and, for what must come about, SpecDispatchLive.            *)

\* The return statements behind a failed dispatch, an empty payload and a
\* payload that does not parse.
OracleFailurePaths == {"dispatch failed", "empty output", "invalid JSON"}

\* C15: one call of Classify and one call of Query start the oracle process
\* at most once; a call whose oracle run failed, was cancelled or gave what
\* cannot be used has returned a failure result with that one start.
C15_OracleStartedAtMostOnce ==
    /\ oracleStarts <= 1
    /\ qOracleStarts <= 1
    /\ (cpc = "done" /\ exitPath \in OracleFailurePaths \cup {"read dispatch output"})
          => result.Status = "no_classification"
    /\ (qpc = "done" /\ qExitPath \in {"dispatch failed", "empty output",
                                        "read dispatch output"})
          => qResult.Status = "error"

\* C15 witness: a call of Query has returned after its one oracle run failed.
C15_Witness ==
    /\ qpc = "done"
    /\ qExitPath = "dispatch failed"
    /\ qOracleStarts = 1
    /\ ~qCancelled

InputError ==
    \/ qMode \notin {"", ModeAnswer, ModeSummarize, ModeExtract}
    \/ qMode \in {"", ModeAnswer} /\ TrimSpace(qQuestion) = <<>>
    \/ Len(qFiles) = 0
    \/ \E i \in DOMAIN qFiles : qFS[qFiles[i]] \in {"missing", "big"}

\* C27: a call of Query with an input error creates no temp file and starts
\* no oracle, and returns the status error with a diagnostic; an empty mode
\* is answered as answer mode; summarize mode with a blank question and
\* readable files is not turned away for its arguments.
C27_InputErrors ==
    qpc # "idle" =>
       /\ InputError =>
             /\ qTempMade = {}
             /\ qOracleStarts = 0
             /\ qpc # "dispatch"
             /\ qpc = "done" => (qResult.Status = "error" /\ qResult.Error # "")
       /\ (qpc = "done" /\ qMode = "") => qResult.Mode = ModeAnswer
       /\ (/\ qpc = "done"
           /\ qMode = ModeSummarize
           /\ Len(qFiles) > 0
           /\ \A i \in DOMAIN qFiles : qFS[qFiles[i]] = "ok")
             => qExitPath \notin {"invalid mode", "no question", "no files", "file error"}

\* C27 witness: a call that named a readable file and then one over the
\* size limit has returned an error.
C27_Witness ==
    /\ qpc = "done"
    /\ qMode = ""
    /\ qFiles = <<"a.go", "b.go">>
    /\ qFS["a.go"] = "ok"
    /\ qFS["b.go"] = "big"
    /\ qResult.Status = "error"
    /\ qExitPath = "file error"

\* C28 as stated: a call of Query in answer mode or in extract mode with a
\* blank question starts no oracle and returns the status error.
C28_QuestionRequired ==
    (/\ qpc # "idle"
     /\ qMode \in {"", ModeAnswer, ModeExtract}
     /\ TrimSpace(qQuestion) = <<>>)
       => /\ qOracleStarts = 0
          /\ qpc = "done" => qResult.Status = "error"

\* C25 as stated: a call of Query that succeeded has left an entry in the
\* cache, and the next call with its arguments starts no oracle and returns
\* what the first returned.
C25_QueryUsesCache ==
    /\ (qpc = "done" /\ qResult.Status = "success") => queryCache # <<>>
    /\ (qPrior # <<>> /\ qPrior[1].result.Status = "success") =>
          /\ qOracleStarts = 0
          /\ qpc = "done" => qResult = qPrior[1].result

---------------------------------------------------------------------------
(* Claims about the result cache, checked under SpecCache. *)

\* The entry stored under key k is usable: it is no older than the
\* time-to-live and each file it tracks exists with a modification time that
\* is not later than the recorded one.
UsableEntry(k) ==
    /\ k \in DOMAIN queryCache
    /\ now - queryCache[k].createdAt <= cacheTTL
    /\ \A f \in DOMAIN queryCache[k].mtimes :
          /\ fsMtime[f] # NoFile
          /\ fsMtime[f] <= queryCache[k].mtimes[f]

\* A step is a call of cacheGet.
IsLookup == lookups' = lookups + 1

\* C20: cacheGet(key) returns a result if and only if an entry is stored
\* under key, its age does not exceed the time-to-live and every file it
\* tracks exists with a modification time not later than the recorded one;
\* the result is the stored one.
C20_LookupValidity ==
    [][IsLookup =>
         IF UsableEntry(cgKey')
         THEN /\ cgResult' = queryCache[cgKey'].result
              /\ cgResult' # NilResult
              /\ cacheHits' = cacheHits + 1
         ELSE /\ cgResult' = NilResult
              /\ cacheMisses' = cacheMisses + 1]_vars

\* C20 witness: two lookups hit, then a tracked file changed within the
\* time-to-live and the next lookup missed and dropped the entry.
C20_Witness ==
    /\ cacheHits = 2
    /\ cacheMisses = 1
    /\ cgResult = NilResult
    /\ queryCache = <<>>
    /\ now <= cacheTTL

\* C21: every cacheGet counts once, as a hit or as a miss, so the two counters
\* add up to the lookups that have returned; a lookup of an absent key
\* changes the miss counter alone, one of an entry that is expired or whose
\* files changed deletes that entry and nothing else and counts a miss, one
\* of a usable entry leaves the cache as it is and counts a hit.
C21_LazyEvictionAndCounters ==
    /\ [](cacheHits + cacheMisses = lookups)
    /\ [][IsLookup =>
            IF cgKey' \notin DOMAIN queryCache
            THEN /\ queryCache' = queryCache
                 /\ cacheMisses' = cacheMisses + 1
                 /\ cacheHits' = cacheHits
            ELSE IF ~UsableEntry(cgKey')
            THEN /\ queryCache' = Delete(queryCache, cgKey')
                 /\ cacheMisses' = cacheMisses + 1
                 /\ cacheHits' = cacheHits
            ELSE /\ queryCache' = queryCache
                 /\ cacheHits' = cacheHits + 1
                 /\ cacheMisses' = cacheMisses]_vars

\* C21 witness: a lookup of an absent key missed, one of the entry stored
\* next hit, and one of that entry once it was stale missed and left the
\* other entry in the cache.
C21_Witness ==
    /\ lookups = 3
    /\ cacheHits = 1
    /\ cacheMisses = 2
    /\ cgResult = NilResult
    /\ Cardinality(DOMAIN queryCache) = 1
    /\ cgKey \notin DOMAIN queryCache

\* A step is a call of cachePut that changes the cache.
IsStore == lookups' = lookups /\ queryCache' # queryCache

\* C22: cachePut into a cache that holds cacheMaxEntries entries removes one
\* entry, one that no entry is older than, and then stores its own; every
\* other entry stays. Below that size it removes nothing.
C22_EvictsOldestAtCapacity ==
    [][IsStore =>
         \E key \in CacheKeys :
            /\ key \in DOMAIN queryCache'
            /\ queryCache'[key].createdAt = now
            /\ \A k \in DOMAIN queryCache' \ {key} :
                  k \in DOMAIN queryCache /\ queryCache'[k] = queryCache[k]
            /\ IF Cardinality(DOMAIN queryCache) >= cacheMaxEntries
               THEN \E victim \in DOMAIN queryCache :
                       /\ Oldest(queryCache, victim)
                       /\ DOMAIN queryCache' = (DOMAIN queryCache \ {victim}) \cup {key}
               ELSE DOMAIN queryCache' = DOMAIN queryCache \cup {key}]_vars

\* C22 witness: a store into the full cache has put the entry of key k2 in
\* the place of the oldest entry, and the cache is full again.
C22_Witness ==
    /\ Cardinality(DOMAIN queryCache) = cacheMaxEntries
    /\ "k2" \in DOMAIN queryCache
    /\ "e" \o ToString(cacheMaxEntries) \in DOMAIN queryCache
    /\ \A k \in DOMAIN queryCache : queryCache[k].createdAt > 1 - cacheMaxEntries

\* A cache, its counters, and what a call returned.
SeqState(cache, hits, misses) == [cache |-> cache, hits |-> hits, misses |-> misses]

\* What one call of the cache does when it runs alone from the state st:
\* the states it may leave and what it returns in each.
AloneOutcomes(st, call) ==
    IF call.op = "get"
    THEN IF call.key \notin DOMAIN st.cache
         THEN {[st |-> [st EXCEPT !.misses = @ + 1], result |-> NilResult, stats |-> ""]}
         ELSE IF expired(st.cache[call.key]) \/ filesChanged(st.cache[call.key])
         THEN {[st |-> [st EXCEPT !.misses = @ + 1,
                                  !.cache = Delete(st.cache, call.key)],
                result |-> NilResult, stats |-> ""]}
         ELSE {[st |-> [st EXCEPT !.hits = @ + 1],
                result |-> st.cache[call.key].result, stats |-> ""]}
    ELSE IF call.op = "put"
    THEN IF Cardinality(DOMAIN st.cache) >= cacheMaxEntries
         THEN {[st |-> [st EXCEPT !.cache =
                           SetKey(Delete(st.cache, victim), call.key, NewEntry(call.key))],
                result |-> NilResult, stats |-> ""] :
                  victim \in {k \in DOMAIN st.cache : Oldest(st.cache, k)}}
         ELSE {[st |-> [st EXCEPT !.cache = SetKey(st.cache, call.key, NewEntry(call.key))],
                result |-> NilResult, stats |-> ""]}
    ELSE {[st |-> st, result |-> NilResult,
           stats |-> IF st.hits + st.misses = 0 THEN "cache: 0 queries"
                     ELSE StatsText(Cardinality(DOMAIN st.cache), st.hits, st.misses,
                                    RoundHalfEven(st.hits * 100, st.hits + st.misses))]}

\* The calls of first and then of second, run one after the other from the
\* cache the goroutines found, can leave the state there is and return what
\* the goroutines hold.
ExplainedBy(first, second) ==
    \E o1 \in AloneOutcomes(SeqState(cache0, 0, 0), gframe[first].call) :
    \E o2 \in AloneOutcomes(o1.st, gframe[second].call) :
        /\ o2.st = SeqState(queryCache, cacheHits, cacheMisses)
        /\ gframe[first].result = o1.result
        /\ gframe[first].stats = o1.stats
        /\ gframe[second].result = o2.result
        /\ gframe[second].stats = o2.stats

\* The places of a call between Lock and Unlock.
InCall(g) == gpc[g] \notin {"idle", "lock", "done"}

\* C24: at most one goroutine is between Lock and Unlock of a cache call,
\* and when the calls of two goroutines that ran at once have returned, the
\* map, the counters and the values returned are those of the two calls run
\* one after the other in one of the two orders.
C24_CallsSerialized ==
    /\ \A g, h \in Goroutines : (InCall(g) /\ InCall(h)) => g = h
    /\ \A g \in Goroutines : InCall(g) => cacheMu = g
    /\ (\A g \in Goroutines : gpc[g] = "done") =>
          (ExplainedBy("g1", "g2") \/ ExplainedBy("g2", "g1"))

\* C24 witness: a store into the full cache and a lookup of an entry of it
\* have both returned, the lookup with a hit.
C24_Witness ==
    /\ \A g \in Goroutines : gpc[g] = "done"
    /\ gframe["g1"].call = [op |-> "put", key |-> "k2"]
    /\ gframe["g2"].call = [op |-> "get", key |-> "k1"]
    /\ Cardinality(DOMAIN cache0) = cacheMaxEntries
    /\ cacheHits = 1

\* C23: the key is fixed by the question, the mode and the sorted file
\* list: two calls that agree on these give one key, in whatever order the
\* files were listed and whatever the files held at the time; the caller's
\* list is as it was.
C23_KeyOfSortedFiles ==
    /\ \A i \in DOMAIN ckCalls : ckCalls[i].files = ckCalls[i].given
    /\ \A i, j \in DOMAIN ckCalls :
          (/\ ckCalls[i].question = ckCalls[j].question
           /\ ckCalls[i].mode = ckCalls[j].mode
           /\ SortStrings(ckCalls[i].given) = SortStrings(ckCalls[j].given))
             => ckCalls[i].key = ckCalls[j].key

\* C23 witness: two calls listed the same two files in opposite orders,
\* a file was written in between, and the keys are one.
C23_Witness ==
    /\ Len(ckCalls) = 2
    /\ ckCalls[1].given = <<"b.go", "a.go">>
    /\ ckCalls[2].given = <<"a.go", "b.go">>
    /\ ckCalls[1].mtimes # ckCalls[2].mtimes
    /\ ckCalls[1].key = ckCalls[2].key

\* The payload is of a read that comes to the deny step: the toggle is on,
\* the tools are there, the file exists, has HookThreshold lines or more, is
\* not under /tmp/, has no allow-listed extension, and no offset is given.
ReachesDenyStep(payload) ==
    /\ hFlag
    /\ hJq
    /\ payload.file_path \in HookPaths
    /\ payload.offset = ""
    /\ WcLines(payload.file_path) >= HookThreshold
    /\ ~HasPrefix(payload.file_path, TmpDir)
    /\ payload.file_path[Len(payload.file_path)] \notin AllowedExtensions

\* C29 as stated: of the reads of one file that come to the deny step the
\* first is denied with a block decision and every later one passes with
\* no output, so that no file is denied twice.
C29_DeniedOnceThenPasses ==
    [][(hReads' = hReads + 1 /\ ReachesDenyStep(hPayload')) =>
          /\ IF hDenials[MarkerOf(hPayload')] = 0
             THEN hOut'.decision = "block"
             ELSE hOut' = NoOutput
          /\ hDenials'[MarkerOf(hPayload')] <= 1]_vars

\* C26 as stated: whatever the caller does to a value a hit returned, each
\* stored entry holds the result it was stored with, the elements of its
\* file list included.
C26_StoredResultUntouched ==
    \A k \in DOMAIN queryCache :
        queryCache[k].result = ResultFor(k, KeyFileList[k])

---------------------------------------------------------------------------
(* What the classification is to compute, stated over the arguments of      *)
(* Classify and the oracle's response.                                      *)

Range(f) == {f[i] : i \in DOMAIN f}

Allowed == RosterNames(agents) \cup CrossCuttingAgents

\* What the response says once read as the claims read it: the triples
\* <<i, a, rel>> such that an assignment of an entry for the id of section i
\* (a position of the sections argument) has the trimmed agent a and the
\* trimmed, lower-cased relevance rel.
Reading ==
    UNION {
        {<<i, Str(TrimSpace(x.Agent)), Str(TrimSpace(ToLower(x.Relevance)))>> :
            i \in {p \in 1..Len(clSections) : clSections[p].ID = decoded[k].SectionID},
            x \in Range(decoded[k].Assignments)}
        : k \in 1..Len(decoded)}

\* The sections a reading T assigns to agent a with relevance rel.
AssignedTo(T, a, rel) == {i \in 1..Len(clSections) : <<i, a, rel>> \in T}

RECURSIVE LinesOf(_)
LinesOf(S) ==
    IF S = {} THEN 0
    ELSE LET i == CHOOSE x \in S : TRUE
         IN  clSections[i].LineCount + LinesOf(S \ {i})

\* The ids of the sections at the positions S, ascending.
RECURSIVE AscendingIDs(_)
AscendingIDs(S) ==
    IF S = {} THEN <<>>
    ELSE LET i == CHOOSE x \in S : \A y \in S : clSections[x].ID <= clSections[y].ID
         IN  <<clSections[i].ID>> \o AscendingIDs(S \ {i})

TotalLines == LinesOf(1..Len(clSections))

PriorityLines(T, a) ==
    IF a \in Allowed THEN LinesOf(AssignedTo(T, a, "priority")) ELSE 0

PriorityPercent(T, a) == (PriorityLines(T, a) * 100) \div TotalLines

\* The slice aggregation gives agent a.
AggregatedSlice(T, a) ==
    [PrioritySections |-> AscendingIDs(AssignedTo(T, a, "priority")),
     ContextSections |-> AscendingIDs(AssignedTo(T, a, "context")),
     TotalPriorityLines |-> LinesOf(AssignedTo(T, a, "priority")),
     TotalContextLines |-> LinesOf(AssignedTo(T, a, "context"))]

FullDocumentSlice ==
    [PrioritySections |-> [i \in 1..Len(clSections) |-> clSections[i].ID],
     ContextSections |-> <<>>,
     TotalPriorityLines |-> TotalLines,
     TotalContextLines |-> 0]

\* The sum of the line counts of the sections a list of ids names.
RECURSIVE LinesOfIDs(_)
LinesOfIDs(ids) ==
    IF ids = <<>> THEN 0
    ELSE LET i == CHOOSE x \in 1..Len(clSections) : clSections[x].ID = Head(ids)
         IN  clSections[i].LineCount + LinesOfIDs(Tail(ids))

MismatchDiagnostic == "domain mismatch: no agent has >10% priority lines"

Classified == cpc = "done" /\ exitPath = "buildResult"

---------------------------------------------------------------------------
(* Claims about Classify and buildResult, checked under SpecClassify and    *)
(* SpecShares.                                                             *)

\* C13: called with no section, Classify returns at once with status
\* no_classification and the diagnostic "no sections to classify"; it starts
\* no oracle process and creates no temp file.
C13_NoSectionsNoOracle ==
    /\ Len(clSections) = 0 => cpc # "dispatch"
    /\ (cpc = "done" /\ Len(clSections) = 0) =>
          /\ result.Status = "no_classification"
          /\ result.Error = "no sections to classify"
          /\ oracleStarts = 0
          /\ tempMade = {}

\* C13 witness: a call with no section has returned.
C13_Witness ==
    /\ cpc = "done"
    /\ clSections = <<>>
    /\ exitPath = "no sections"

\* C14: when the oracle invocation fails, the stripped payload is empty or
\* the payload does not parse, the result has status no_classification, lists
\* every input section with no assignment, gives every reviewer an empty
\* slice with zero totals and carries a non-empty diagnostic.
C14_OracleFailureResult ==
    (cpc = "done" /\ exitPath \in OracleFailurePaths) =>
        /\ result.Status = "no_classification"
        /\ Len(result.Sections) = Len(clSections)
        /\ \A i \in 1..Len(clSections) :
              /\ result.Sections[i].SectionID = clSections[i].ID
              /\ result.Sections[i].Heading = clSections[i].Heading
              /\ result.Sections[i].LineCount = clSections[i].LineCount
              /\ result.Sections[i].Assignments = <<>>
        /\ RosterNames(agents) \subseteq DOMAIN result.SlicingMap
        /\ \A a \in DOMAIN result.SlicingMap :
              /\ result.SlicingMap[a].PrioritySections = <<>>
              /\ result.SlicingMap[a].ContextSections = <<>>
              /\ result.SlicingMap[a].TotalPriorityLines = 0
              /\ result.SlicingMap[a].TotalContextLines = 0
        /\ result.Error # ""

\* C14 witness: a call with two sections, one of them without lines, has
\* returned after the payload did not parse.
C14_Witness ==
    /\ cpc = "done"
    /\ exitPath = "invalid JSON"
    /\ Len(clSections) = 2
    /\ clSections[1].LineCount = 0
    /\ Len(result.Sections) = 2

\* The assignments the response holds for the section at position i.
RawFor(i) ==
    UNION {Range(decoded[k].Assignments) :
              k \in {j \in 1..Len(decoded) : decoded[j].SectionID = clSections[i].ID}}

\* An assignment of the response passes the tests of agent and relevance.
Passes(x) ==
    /\ Str(TrimSpace(x.Agent)) \in Allowed
    /\ Str(TrimSpace(ToLower(x.Relevance))) \in {"priority", "context"}

StrictlyAscending(ids) ==
    \A i, j \in 1..Len(ids) : i < j => ids[i] < ids[j]

\* C18: every assignment of a result names an allowed agent (a roster name
\* or a cross-cutting name), has the relevance "priority" or "context" and a
\* confidence within [0,1] (in hundredths: 0..100); it stems from an
\* assignment of the response that passes both tests, and an id is in a list
\* of a slice that is not the full document only through such an assignment.
C18_OnlyValidAssignments ==
    cpc = "done" =>
        /\ \A i \in 1..Len(result.Sections) :
              \A y \in Range(result.Sections[i].Assignments) :
                 /\ y.Agent \in Allowed
                 /\ y.Relevance \in {"priority", "context"}
                 /\ y.Confidence >= 0 /\ y.Confidence <= 100
                 /\ \E x \in RawFor(i) :
                       /\ Passes(x)
                       /\ Str(TrimSpace(x.Agent)) = y.Agent
                       /\ Str(TrimSpace(ToLower(x.Relevance))) = y.Relevance
        /\ \A a \in DOMAIN result.SlicingMap :
              /\ a \in Allowed
              /\ result.SlicingMap[a] # FullDocumentSlice =>
                    /\ \A id \in Range(result.SlicingMap[a].PrioritySections) :
                          \E i \in 1..Len(clSections) :
                             /\ clSections[i].ID = id
                             /\ \E x \in RawFor(i) :
                                   /\ Passes(x)
                                   /\ Str(TrimSpace(x.Agent)) = a
                                   /\ Str(TrimSpace(ToLower(x.Relevance))) = "priority"
                    /\ \A id \in Range(result.SlicingMap[a].ContextSections) :
                          \E i \in 1..Len(clSections) :
                             /\ clSections[i].ID = id
                             /\ \E x \in RawFor(i) :
                                   /\ Passes(x)
                                   /\ Str(TrimSpace(x.Agent)) = a
                                   /\ Str(TrimSpace(ToLower(x.Relevance))) = "context"

\* C18 witness: the response gave section 1 an assignment of an agent that
\* is not allowed, one of an unknown relevance and one with the confidence
\* 1.5 that was kept with the confidence 1.
C18_Witness ==
    /\ Classified
    /\ Len(clSections) >= 1
    /\ \E x \in RawFor(1) : Str(TrimSpace(x.Agent)) \notin Allowed
    /\ \E x \in RawFor(1) : x.Confidence = 150 /\ Passes(x)
    /\ Len(result.Sections[1].Assignments) = 1
    /\ result.Sections[1].Assignments[1].Confidence = 100

\* C19: the sections of a result are the input sections in input order,
\* with the same id, heading and line count, and every list of section ids
\* of a slice is strictly ascending.
C19_DocumentOrder ==
    cpc = "done" =>
        /\ Len(result.Sections) = Len(clSections)
        /\ \A i \in 1..Len(clSections) :
              /\ result.Sections[i].SectionID = clSections[i].ID
              /\ result.Sections[i].Heading = clSections[i].Heading
              /\ result.Sections[i].LineCount = clSections[i].LineCount
        /\ \A a \in DOMAIN result.SlicingMap :
              /\ StrictlyAscending(result.SlicingMap[a].PrioritySections)
              /\ StrictlyAscending(result.SlicingMap[a].ContextSections)

\* C19 witness: the response named section 2 before section 1 for an agent
\* outside the roster, whose slice is never replaced; its priority list is
\* 1, 2.
C19_Witness ==
    /\ Classified
    /\ Len(clSections) = 2
    /\ Len(decoded) = 2
    /\ decoded[1].SectionID = 2
    /\ decoded[2].SectionID = 1
    /\ \E a \in DOMAIN result.SlicingMap \ RosterNames(agents) :
          result.SlicingMap[a].PrioritySections = <<1, 2>>

\* C1: in every result of buildResult no section id is in both the priority
\* list and the context list of a reviewer, whatever the oracle wrote.
C1_NoSectionInBothLists ==
    Classified =>
        \A a \in DOMAIN result.SlicingMap :
            Range(result.SlicingMap[a].PrioritySections)
                \cap Range(result.SlicingMap[a].ContextSections) = {}

\* C2: in every returned result each slice's total_priority_lines is the sum
\* of the line counts of the sections in priority_sections, and its
\* total_context_lines that of the sections in context_sections.
C2_TotalsMatchLists ==
    cpc = "done" =>
        \A a \in DOMAIN result.SlicingMap :
            /\ result.SlicingMap[a].TotalPriorityLines
                  = LinesOfIDs(result.SlicingMap[a].PrioritySections)
            /\ result.SlicingMap[a].TotalContextLines
                  = LinesOfIDs(result.SlicingMap[a].ContextSections)

\* C2 witness: the oracle wrote the same assignment twice for a section with
\* lines, and the reviewer's slice lists the section.
C2_Witness ==
    /\ Classified
    /\ Len(decoded) = 2
    /\ decoded[1] = decoded[2]
    /\ decoded[1].Assignments # <<>>
    /\ \E a \in DOMAIN result.SlicingMap :
          /\ result.SlicingMap[a].TotalPriorityLines > 0
          /\ result.SlicingMap[a].TotalPriorityLines < TotalLines

\* C3: on every return path of Classify the slicing map has an entry for
\* every configured reviewer.
C3_EveryReviewerHasSlice ==
    cpc = "done" => RosterNames(agents) \subseteq DOMAIN result.SlicingMap

\* C4: with a positive line total and no configured reviewer whose priority
\* share, floor(priorityLines*100/totalLines), is above 10, the status is
\* no_classification, the diagnostic names the guard, and every slice is the
\* one aggregation computed.
C4_MismatchGuard ==
    LET T == Reading
    IN  (/\ Classified
         /\ TotalLines > 0
         /\ \A a \in RosterNames(agents) : PriorityPercent(T, a) <= 10)
        => /\ result.Status = statusNoClassification
           /\ result.Error = MismatchDiagnostic
           /\ RosterNames(agents) \subseteq DOMAIN result.SlicingMap
           /\ DOMAIN result.SlicingMap \subseteq Allowed
           /\ \A a \in Allowed :
                 IF a \in DOMAIN result.SlicingMap
                 THEN result.SlicingMap[a] = AggregatedSlice(T, a)
                 ELSE AggregatedSlice(T, a) = EmptySlice

\* C4 witness: a reviewer at exactly 10% and the guard's result.
C4_Witness ==
    /\ Classified
    /\ TotalLines > 0
    /\ \E a \in RosterNames(agents) :
          /\ PriorityLines(Reading, a) * 100 = 10 * TotalLines
          /\ result.SlicingMap[a].PrioritySections # <<>>
    /\ result.Status = statusNoClassification

\* C5: when the status is success, a configured reviewer whose priority
\* share is at least 80 has the full-document slice (every section id in
\* order, the document's line total, no context), and every other configured
\* reviewer has the slice aggregation computed.
C5_FullDocumentCollapse ==
    LET T == Reading
    IN  (Classified /\ result.Status = statusSuccess)
        => \A a \in RosterNames(agents) :
              IF PriorityPercent(T, a) >= 80
              THEN result.SlicingMap[a] = FullDocumentSlice
              ELSE result.SlicingMap[a] = AggregatedSlice(T, a)

\* C5 witness: a reviewer at exactly 80% of a document whose other section
\* it has as context, collapsed.
C5_Witness ==
    /\ Classified
    /\ result.Status = statusSuccess
    /\ \E a \in RosterNames(agents) :
          /\ PriorityLines(Reading, a) * 100 = 80 * TotalLines
          /\ AssignedTo(Reading, a, "context") # {}
          /\ result.SlicingMap[a] = FullDocumentSlice

\* C6 (as stated): with 50 lines split as 5 and 45 between two reviewers'
\* priority assignments the status is no_classification with the guard's
\* diagnostic; with a reviewer at 6 of 50 the status is success.
C6_AsStated ==
    LET T == Reading
    IN  /\ (/\ Classified
            /\ TotalLines = 50
            /\ \E a, b \in RosterNames(agents) :
                  a # b /\ PriorityLines(T, a) = 5 /\ PriorityLines(T, b) = 45)
           => /\ result.Status = statusNoClassification
              /\ result.Error = MismatchDiagnostic
        /\ (/\ Classified
            /\ TotalLines = 50
            /\ \E a \in RosterNames(agents) : PriorityLines(T, a) = 6)
           => result.Status = statusSuccess

\* C6 (amended): with 50 lines of which one reviewer has 5 as priority lines
\* and no configured reviewer has more than 5, the status is
\* no_classification with the guard's diagnostic; with a reviewer at 6 of 50
\* the status is success.
C6_FiveAndSixOfFifty ==
    LET T == Reading
    IN  /\ (/\ Classified
            /\ TotalLines = 50
            /\ \E a \in RosterNames(agents) : PriorityLines(T, a) = 5
            /\ \A b \in RosterNames(agents) : PriorityLines(T, b) <= 5)
           => /\ result.Status = statusNoClassification
              /\ result.Error = MismatchDiagnostic
        /\ (/\ Classified
            /\ TotalLines = 50
            /\ \E a \in RosterNames(agents) : PriorityLines(T, a) = 6)
           => result.Status = statusSuccess

\* C6 witness: 5 of 50 lines are a reviewer's priority lines, the other 45
\* are no configured reviewer's, and the guard has answered.
C6_Witness ==
    /\ Classified
    /\ TotalLines = 50
    /\ \E a \in RosterNames(agents) : PriorityLines(Reading, a) = 5
    /\ \A b \in RosterNames(agents) : PriorityLines(Reading, b) <= 5
    /\ result.Status = statusNoClassification

KnownIDs == {clSections[i].ID : i \in 1..Len(clSections)}

IsKnownEntry(e) == e.SectionID \in KnownIDs

\* The response without its entries for ids of no section.
KnownEntries == SelectSeq(decoded, IsKnownEntry)

\* C32: entries of the response whose section id is the id of no section are
\* ignored: the result (status, per-section assignment lists, every slice,
\* diagnostic) is the one the response without those entries gives, so that
\* adding or removing such entries changes nothing.
C32_UnknownIDsIgnored ==
    Classified
    => result = buildResult(classifiedOf(KnownEntries), clSections, agents)

\* C32 witness: the response has an entry with an assignment for an id of no
\* section next to one for a section of the document, which a reviewer's
\* slice records.
C32_Witness ==
    /\ Classified
    /\ \E k \in 1..Len(decoded) :
          /\ ~IsKnownEntry(decoded[k])
          /\ decoded[k].Assignments # <<>>
    /\ KnownEntries # <<>>
    /\ \E a \in DOMAIN result.SlicingMap :
          result.SlicingMap[a].PrioritySections # <<>>

\* C33: when the line counts of the sections add up to zero, the result is
\* the aggregated one as it stands: the status is no_classification (not
\* success), the diagnostic is empty since the guard is not evaluated, every
\* slice is the one aggregation computed (no collapse), and every section
\* carries its normalised assignments.
C33_ZeroLinesReturnedAsIs ==
    LET T == Reading
    IN  (Classified /\ TotalLines = 0)
        => /\ result.Status = statusNoClassification
           /\ result.Error = ""
           /\ Len(result.Sections) = Len(clSections)
           /\ \A i \in 1..Len(clSections) :
                 result.Sections[i].Assignments =
                     normalizeAssignments(
                         IF clSections[i].ID \in DOMAIN classifiedOf(decoded)
                         THEN classifiedOf(decoded)[clSections[i].ID]
                         ELSE <<>>,
                         Allowed)
           /\ RosterNames(agents) \subseteq DOMAIN result.SlicingMap
           /\ \A a \in Allowed :
                 IF a \in DOMAIN result.SlicingMap
                 THEN result.SlicingMap[a] = AggregatedSlice(T, a)
                 ELSE AggregatedSlice(T, a) = EmptySlice

\* C33 witness: a document of sections without lines, one of which the
\* oracle gave a configured reviewer as priority; the slice lists it and the
\* diagnostic is empty.
C33_Witness ==
    /\ Classified
    /\ Len(clSections) > 0
    /\ TotalLines = 0
    /\ \E a \in RosterNames(agents) :
          /\ result.SlicingMap[a].PrioritySections # <<>>
          /\ result.SlicingMap[a].TotalPriorityLines = 0
    /\ result.Status = statusNoClassification
    /\ result.Error = ""

\* C34: when Classify has returned, on any exit path, no temp file it
\* created (prompt file, output file) is left.
C34_NoTempFileLeft ==
    cpc = "done" => tempLive = {}

\* The read is one the hook is to let through: the toggle flag file is
\* absent, an offset is given, the path is under /tmp/, the extension is on
\* the allow-list, the file does not exist or has fewer than HookThreshold
\* lines.
ToPassThrough(payload) ==
    \/ ~hFlag
    \/ payload.offset # ""
    \/ /\ payload.file_path # <<>>
       /\ \/ HasPrefix(payload.file_path, TmpDir)
          \/ payload.file_path[Len(payload.file_path)] \in AllowedExtensions
          \/ WcLines(payload.file_path) = NoFile
          \/ WcLines(payload.file_path) < HookThreshold

\* C35: every run of the hook ends with the exit status 0, and a run on a
\* read that is to pass through writes no block decision, creates no
\* per-session marker file and counts as no denial.
C35_PassThroughLeavesNoMark ==
    [][hReads' = hReads + 1 =>
          /\ hExit' = 0
          /\ ToPassThrough(hPayload') =>
                /\ hOut' = NoOutput
                /\ hMarkers' = hMarkers
                /\ hDenials' = hDenials]_vars

\* C35 witness: with the toggle on and /tmp writable, a read with an offset
\* of a file of HookThreshold lines or more in a session has passed, no
\* marker of that session and file exists and no read of it was denied.
C35_Witness ==
    /\ hReads > 0
    /\ hExit = 0
    /\ hFlag /\ hJq /\ hTmpWritable
    /\ hPayload.file_path \in HookPaths
    /\ hPayload.offset # ""
    /\ hPayload.session_id # ""
    /\ ReachesDenyStep([hPayload EXCEPT !.offset = ""])
    /\ hOut = NoOutput
    /\ MarkerOf(hPayload) \notin hMarkers
    /\ hDenials[MarkerOf(hPayload)] = 0

\* The heading boundaries among the scanned lines ls, and the end of the
\* stretch of body lines that starts behind line h (h = 0: at the first
\* line): the next boundary or the end of ls.
StretchEnd(ls, h) ==
    LET later == {x \in HeadingsOutsideFences(ls) : x > h}
    IN  IF later = {} THEN Len(ls)
        ELSE (CHOOSE x \in later : \A y \in later : x <= y) - 1

\* The lines of the body of the k-th returned section: with a preamble of
\* text the first section is the stretch before the first boundary; every
\* other section is the stretch behind its boundary.
ExpectedBodyLines(ls, k) ==
    LET H == HeadingsOutsideFences(ls)
        n == IF PreambleHasText(ls) THEN k - 1 ELSE k
        h == IF n = 0 THEN 0
             ELSE CHOOSE x \in H : Cardinality({y \in H : y <= x}) = n
    IN  SubSeq(ls, h + 1, StretchEnd(ls, h))

SuppressedPreambleLines(ls) ==
    IF PreambleHasText(ls) THEN 0 ELSE StretchEnd(ls, 0)

RECURSIVE SumLineCounts(_)
SumLineCounts(secs) ==
    IF secs = <<>> THEN 0
    ELSE Head(secs).LineCount + SumLineCounts(Tail(secs))

\* C36: of the lines scanned (those left after the metadata block) every
\* line that is not a heading boundary is in the body of exactly one section,
\* in order: each returned section holds the stretch of lines between its
\* boundary and the next, and the line counts of the sections, the number
\* of boundaries and the lines of a suppressed blank preamble add up to the
\* number of lines scanned.
C36_LinesConserved ==
    LET ls == AfterMetadata(doc)
    IN  xpc = "done" =>
          /\ lines = ls
          /\ \A k \in 1..Len(sections) :
                /\ sections[k].Body = Join(ExpectedBodyLines(ls, k), <<"\n">>)
                /\ sections[k].LineCount = Len(ExpectedBodyLines(ls, k))
          /\ SumLineCounts(sections)
                + Cardinality(HeadingsOutsideFences(ls))
                + SuppressedPreambleLines(ls) = Len(ls)

\* C36 witness: a blank preamble line that is suppressed, a boundary and a
\* body line that a section holds.
C36_Witness ==
    /\ xpc = "done"
    /\ SuppressedPreambleLines(lines) >= 1
    /\ Cardinality(HeadingsOutsideFences(lines)) >= 1
    /\ SumLineCounts(sections) >= 1

\* C37 (as stated): every result with status no_classification has a
\* non-empty diagnostic and every result with status success an empty one;
\* the status is success only with a positive line total and a configured
\* reviewer whose priority share is above 10.
C37_DiagnosticWithEveryFailure ==
    cpc = "done" =>
        /\ result.Status = statusNoClassification => result.Error # ""
        /\ result.Status = statusSuccess =>
              /\ result.Error = ""
              /\ TotalLines > 0
              /\ \E a \in RosterNames(agents) : PriorityPercent(Reading, a) > 10

\* C37 (amended): a result with status no_classification has a non-empty
\* diagnostic unless it is the aggregated result returned for a line total
\* of zero, whose diagnostic is empty; every result with status success has
\* an empty one; the status is success only with a positive line total and
\* a configured reviewer whose priority share is above 10.
C37_DiagnosticUnlessZeroLines ==
    cpc = "done" =>
        /\ result.Status \in {statusNoClassification, statusSuccess}
        /\ result.Status = statusNoClassification =>
              (result.Error = "" <=> (Classified /\ TotalLines = 0))
        /\ result.Status = statusSuccess =>
              /\ result.Error = ""
              /\ Classified
              /\ TotalLines > 0
              /\ \E a \in RosterNames(agents) : PriorityPercent(Reading, a) > 10

\* C37 witness: the oracle answered for a document whose sections have no
\* lines, and the result is no_classification without a diagnostic.
C37_Witness ==
    /\ Classified
    /\ Len(clSections) > 0
    /\ decoded # <<>>
    /\ TotalLines = 0
    /\ result.Status = statusNoClassification
    /\ result.Error = ""

\* C38: the shares are floors of integer divisions. With a positive line
\* total the guard is cleared (the status is success) exactly when a
\* configured reviewer has priorityLines*100 >= 11*totalLines, and then a
\* configured reviewer has the full-document slice exactly when its
\* priorityLines*100 >= 80*totalLines; with a line total of zero neither
\* test is evaluated and the result is the unevaluated one.
C38_FloorThresholds ==
    LET T == Reading
    IN  Classified =>
          /\ TotalLines > 0 =>
                /\ result.Status = statusSuccess
                      <=> \E a \in RosterNames(agents) :
                             PriorityLines(T, a) * 100 >= 11 * TotalLines
                /\ result.Status = statusSuccess =>
                      \A a \in RosterNames(agents) :
                         result.SlicingMap[a] = FullDocumentSlice
                            <=> PriorityLines(T, a) * 100 >= 80 * TotalLines
          /\ TotalLines = 0 =>
                /\ result.Status = statusNoClassification
                /\ result.Error # MismatchDiagnostic

\* C38 witness: the only priority lines are a configured reviewer's, a share
\* strictly between 10% and 11%, and the guard is not cleared.
C38_Witness ==
    /\ Classified
    /\ TotalLines > 0
    /\ \E a \in RosterNames(agents) :
          /\ PriorityLines(Reading, a) * 100 > 10 * TotalLines
          /\ PriorityLines(Reading, a) * 100 < 11 * TotalLines
          /\ \A b \in RosterNames(agents) \ {a} : PriorityLines(Reading, b) = 0
    /\ result.Status = statusNoClassification
    /\ result.Error = MismatchDiagnostic

\* C39: whatever calls of cacheGet and cachePut the goroutines make, and
\* however their steps interleave, the cache never holds more than
\* cacheMaxEntries entries.
C39_AtMostMaxEntries ==
    Cardinality(DOMAIN queryCache) <= cacheMaxEntries

\* C39 witness: the cache was at its capacity without the key k2, one
\* goroutine has looked up and the other has stored k2, and the cache is
\* at its capacity.
C39_Witness ==
    /\ Cardinality(DOMAIN cache0) = cacheMaxEntries
    /\ "k2" \notin DOMAIN cache0
    /\ "k2" \in DOMAIN queryCache
    /\ \E g, h \in Goroutines :
          /\ gframe[g].call.op = "put"
          /\ gframe[h].call.op = "get"
    /\ Cardinality(DOMAIN queryCache) = cacheMaxEntries

\* C40 as stated: a call of cachePut for a key the cache holds, the cache at
\* its capacity or below it, puts a new entry in the place of that key's
\* and leaves every other entry as it was.
C40_OverwriteKeepsOthers ==
    [][(IsStore /\ DOMAIN queryCache' \subseteq DOMAIN queryCache) =>
          \E key \in CacheKeys \cap DOMAIN queryCache :
             /\ key \in DOMAIN queryCache'
             /\ queryCache'[key] = NewEntry(key)
             /\ \A k \in DOMAIN queryCache \ {key} :
                   k \in DOMAIN queryCache' /\ queryCache'[k] = queryCache[k]]_vars

=============================================================================
